---------------------------- MODULE Spec2Model ----------------------------
(***************************************************************************)
(* State-machine model of the grid-world NPC core: Inventory and Crafter   *)
(* (src/agent), A* pathfinding, GridMover, AreaManager and ObjectManager   *)
(* (src/world).  Every component has its own specification over the same   *)
(* variables; a specification keeps the other components' variables at     *)
(* their initial values.                                                   *)
(*                                                                         *)
(* Conventions.  A Python dict is a TLA+ function whose DOMAIN is the set  *)
(* of keys (the empty dict is <<>>).  An Optional object is a sequence of  *)
(* length 0 (None) or 1.  An Optional string uses the sentinel None.       *)
(* Times (seconds) and distances (pixels) are exact integers: the model    *)
(* does not cover floating-point rounding.                                 *)
(***************************************************************************)
EXTENDS Integers, Sequences, FiniteSets, TLC

VARIABLES
    items,               \* Inventory.items: dict item -> count
    _task,               \* Crafter._task: Optional[CraftTask]
    _current_area_name,  \* NPCAgent._current_area_name: str | None
    ret,                 \* the last call and what it returned (observation)
    pf_start,            \* astar argument start
    pf_goal,             \* astar argument goal
    pf_grid,             \* astar argument grid: a GridSpec
    pf_path,             \* the list astar returned
    pf_done,             \* whether astar has been called
    path,                \* GridMover.path
    _current_index,      \* GridMover._current_index
    _pos_world,          \* GridMover._pos_world, whole pixels
    mv_elapsed,          \* a mover's run: sum of the dt since the path was set
    mv_long,             \* a mover's run: whether a dt exceeded one cell's time
    mv_ret,              \* the last GridMover call (observation)
    _areas,              \* AreaManager._areas, in the dict's order
    _cell_to_areas,      \* AreaManager._cell_to_areas: dict cell -> ids
    _perimeter_cache,    \* AreaManager._perimeter_cache: Optional[set]
    am_order,            \* area ids by most recent insertion (history)
    am_ret,              \* the last AreaManager call (observation)
    _objects,            \* ObjectManager._objects: dict id -> object
    obj_by_cell,         \* ObjectManager.obj_by_cell: dict cell -> id
    world_blocked,       \* ObjectManager.world_blocked
    _id_counter,         \* items._id_counter: the next object number
    om_ret,              \* the last ObjectManager call (observation)
    ag_pos,              \* per agent: its mover's _pos_world, whole pixels
    ag_items,            \* per agent: its Inventory.items
    ag_pc,               \* per agent: where it stands inside drop_to_ground
    ag_ret               \* per agent: its last action (observation)

None == "None"
NoTask == <<>>

\* ------------------------------------------------------------ components
craftVars == <<items, _task, _current_area_name, ret>>

pathVars == <<pf_start, pf_goal, pf_grid, pf_path, pf_done>>

moverVars == <<path, _current_index, _pos_world, mv_elapsed, mv_long, mv_ret>>

areaVars == <<_areas, _cell_to_areas, _perimeter_cache, am_order, am_ret>>

ledgerVars == <<_objects, obj_by_cell, world_blocked, _id_counter, om_ret>>

agentsVars == <<ag_pos, ag_items, ag_pc, ag_ret>>

vars == <<craftVars, pathVars, moverVars, areaVars, ledgerVars, agentsVars>>

notCraftVars == <<pathVars, moverVars, areaVars, ledgerVars, agentsVars>>

notPathVars == <<craftVars, moverVars, areaVars, ledgerVars, agentsVars>>

notMoverVars == <<craftVars, pathVars, areaVars, ledgerVars, agentsVars>>

notAreaVars == <<craftVars, pathVars, moverVars, ledgerVars, agentsVars>>

notLedgerVars == <<craftVars, pathVars, moverVars, areaVars, agentsVars>>

notAgentsVars == <<craftVars, pathVars, moverVars, areaVars, om_ret>>

\* ------------------------------------------------------------------ bounds
MaxCount == 6     \* largest count of one item the model lets an inventory hold
MaxQty == 3       \* largest quantity passed to Crafter.start
MaxDt == 5        \* largest dt (seconds) passed to Crafter.update
MaxDelta == 2     \* largest quantity in an Inventory.add / remove argument
GridW == 3        \* GridSpec.width_cells of the model's grids
GridH == 3        \* GridSpec.height_cells of the model's grids
MaxBlocked == 2   \* largest number of blocked cells of a pathfinding grid
MaxPathLen == 4   \* largest number of cells of a path given to set_path
MaxMoveDt == 4    \* largest dt (ticks) passed to GridMover.update
AreaSpan == 3     \* largest coordinate of a cell asked of the AreaManager
LedgerSpan == 2   \* largest x of a cell handed to the ObjectManager
MaxIds == 3       \* largest object number _id_counter hands out
MaxHeld == 2      \* largest count of one item an agent gathers
MaxDrop == 2      \* largest qty passed to drop_to_ground
MaxGround == 1    \* most objects the loader places around the agents
MaxAreas == 1     \* most areas of the agent's world
MaxTick == 2      \* largest dt (ticks) passed to NPCAgent.update
MaxBaked == 1     \* the agent starts bread while it holds less bread

\* ------------------------------------------------------------------ data
ITEMS == {"wheat", "bread"}

\* The recipe registry (external data, world/recipe.py Recipe): the bakery
\* scenario of the specification plus a two-input recipe without station and
\* a registered recipe the agent does not know.
RECIPES ==
    [ bread  |-> [name |-> "bread", inputs |-> [wheat |-> 2],
                  outputs |-> [bread |-> 1], time_per_unit |-> 2,
                  station |-> "BakeryArea"],
      mash   |-> [name |-> "mash", inputs |-> [wheat |-> 1, bread |-> 1],
                  outputs |-> [bread |-> 2], time_per_unit |-> 1,
                  station |-> None],
      secret |-> [name |-> "secret", inputs |-> [wheat |-> 1],
                  outputs |-> [bread |-> 1], time_per_unit |-> 1,
                  station |-> None] ]

\* Names a caller may pass to Crafter.start ("cake" is in no registry).
RECIPE_NAMES == {"bread", "mash", "secret", "cake"}

\* Crafter.known_recipes (the set handed to the Crafter's constructor).
known_recipes == {"bread", "mash", "cake"}

\* type(area).__name__ of the area classes (world/areas/areas_type.py).
AREA_CLASS_NAMES == {"BakeryArea", "FarmArea"}

\* ------------------------------------------------------------- Inventory
\* Inventory.count
Inventory_count(inv, k) == IF k \in DOMAIN inv THEN inv[k] ELSE 0

\* Inventory.has with `all` replaced by `any`.
Inventory_has_Any(inv, req) ==
    \E k \in DOMAIN req : Inventory_count(inv, k) >= req[k]

\* Inventory.has
Inventory_has(inv, req) ==
    \A k \in DOMAIN req : Inventory_count(inv, k) >= req[k]

\* Inventory.add: entries with v <= 0 are skipped.
Inventory_add(inv, delta) ==
    LET added == {k \in DOMAIN delta : delta[k] > 0}
    IN  [k \in DOMAIN inv \cup added |->
            Inventory_count(inv, k) + (IF k \in added THEN delta[k] ELSE 0)]

\* The loop of Inventory.remove popping only keys whose new value is < 0.
Inventory_remove_apply_KeepZero(inv, req) ==
    LET newv(k) == Inventory_count(inv, k) - req[k]
        popped == {k \in DOMAIN req : newv(k) < 0}
        kept   == {k \in DOMAIN req : newv(k) >= 0}
    IN  [k \in (DOMAIN inv \ popped) \cup kept |->
            IF k \in kept THEN newv(k) ELSE inv[k]]

\* The loop of Inventory.remove (after the has check): a key whose new value
\* is <= 0 is popped, any other requested key is set to the new value.
Inventory_remove_apply(inv, req) ==
    LET newv(k) == Inventory_count(inv, k) - req[k]
        popped == {k \in DOMAIN req : newv(k) <= 0}
        kept   == {k \in DOMAIN req : newv(k) > 0}
    IN  [k \in (DOMAIN inv \ popped) \cup kept |->
            IF k \in kept THEN newv(k) ELSE inv[k]]

\* Inventory.remove: [ok, items]
Inventory_remove(inv, req) ==
    IF ~Inventory_has(inv, req)
    THEN [ok |-> FALSE, items |-> inv]
    ELSE [ok |-> TRUE, items |-> Inventory_remove_apply(inv, req)]

\* --------------------------------------------------------------- Crafter
\* total_inputs of Crafter.start without the multiplication by qty.
total_inputs_PerUnit(recipe, qty) ==
    [k \in DOMAIN recipe.inputs |-> recipe.inputs[k]]

\* total_inputs = {k: v * qty} of Crafter.start
total_inputs(recipe, qty) ==
    [k \in DOMAIN recipe.inputs |-> recipe.inputs[k] * qty]

StartResult(ok, err, task, inv) ==
    [ok |-> ok, err |-> err, task |-> task, items |-> inv]

\* Crafter.start after the busy check, consuming the inputs before the
\* station test.
Crafter_start_idle_InputsFirst(inv, area, recipe_name, qty) ==
    IF qty <= 0 THEN StartResult(FALSE, "INVALID_QTY", NoTask, inv)
    ELSE IF recipe_name \notin DOMAIN RECIPES
    THEN StartResult(FALSE, "UNKNOWN_RECIPE", NoTask, inv)
    ELSE IF recipe_name \notin known_recipes
    THEN StartResult(FALSE, "NOT_KNOWN", NoTask, inv)
    ELSE LET recipe == RECIPES[recipe_name]
             rem == Inventory_remove(inv, total_inputs(recipe, qty))
         IN  IF ~rem.ok
             THEN StartResult(FALSE, "MISSING_INPUTS", NoTask, inv)
             ELSE IF recipe.station # None /\ area # recipe.station
             THEN StartResult(FALSE, "WRONG_STATION", NoTask, inv)
             ELSE StartResult(TRUE, None,
                    << [recipe |-> recipe.name, qty_total |-> qty,
                        qty_remaining |-> qty,
                        time_left_unit |-> recipe.time_per_unit] >>,
                    rem.items)

\* The checks and the consumption of Crafter.start after the busy check.
Crafter_start_idle(inv, area, recipe_name, qty) ==
    IF qty <= 0 THEN StartResult(FALSE, "INVALID_QTY", NoTask, inv)
    ELSE IF recipe_name \notin DOMAIN RECIPES
    THEN StartResult(FALSE, "UNKNOWN_RECIPE", NoTask, inv)
    ELSE IF recipe_name \notin known_recipes
    THEN StartResult(FALSE, "NOT_KNOWN", NoTask, inv)
    ELSE LET recipe == RECIPES[recipe_name]
             rem == Inventory_remove(inv, total_inputs(recipe, qty))
         IN  IF recipe.station # None /\ area # recipe.station
             THEN StartResult(FALSE, "WRONG_STATION", NoTask, inv)
             ELSE IF ~rem.ok
             THEN StartResult(FALSE, "MISSING_INPUTS", NoTask, inv)
             ELSE StartResult(TRUE, None,
                    << [recipe |-> recipe.name, qty_total |-> qty,
                        qty_remaining |-> qty,
                        time_left_unit |-> recipe.time_per_unit] >>,
                    rem.items)

\* Crafter.start without its first check.
Crafter_start_NoBusyCheck(task, inv, area, recipe_name, qty) ==
    Crafter_start_idle(inv, area, recipe_name, qty)

\* Crafter.start: [ok, err, task, items]
Crafter_start(task, inv, area, recipe_name, qty) ==
    IF task # NoTask
    THEN StartResult(FALSE, "ALREADY_BUSY", task, inv)
    ELSE Crafter_start_idle(inv, area, recipe_name, qty)

\* The station test of Crafter.update, never cancelling.
station_left_Never(task, area) == FALSE

\* The station test of Crafter.update: the task's recipe names a station and
\* the owner's current area name differs from it.
station_left(task, area) ==
    /\ RECIPES[task[1].recipe].station # None
    /\ area # RECIPES[task[1].recipe].station

\* The unit-completion test of the loop with > in place of >=.
unit_done_Strict(remaining, time_left_unit) == remaining > time_left_unit

\* `if remaining >= t.time_left_unit` of the loop of Crafter.update
unit_done(remaining, time_left_unit) == remaining >= time_left_unit

RECURSIVE craft_loop_NeverIdle(_, _, _)
\* The while loop of Crafter.update without `if t.qty_remaining == 0:
\* self._task = None`.
craft_loop_NeverIdle(task, remaining, inv) ==
    IF task = NoTask \/ ~(remaining > 0) \/ ~(task[1].qty_remaining > 0)
    THEN [task |-> task, items |-> inv]
    ELSE LET t == task[1]
             r == RECIPES[t.recipe]
             done == unit_done(remaining, t.time_left_unit)
             rem2 == IF done THEN remaining - t.time_left_unit ELSE 0
             inv2 == IF done THEN Inventory_add(inv, r.outputs) ELSE inv
             t2 == IF done
                   THEN [t EXCEPT !.qty_remaining = @ - 1,
                                  !.time_left_unit = r.time_per_unit]
                   ELSE [t EXCEPT !.time_left_unit = @ - remaining]
         IN  craft_loop_NeverIdle(<<t2>>, rem2, inv2)

RECURSIVE craft_loop(_, _, _)
\* The while loop of Crafter.update: [task, items] when it ends.
craft_loop(task, remaining, inv) ==
    IF task = NoTask \/ ~(remaining > 0) \/ ~(task[1].qty_remaining > 0)
    THEN [task |-> task, items |-> inv]
    ELSE LET t == task[1]
             r == RECIPES[t.recipe]
             done == unit_done(remaining, t.time_left_unit)
             rem2 == IF done THEN remaining - t.time_left_unit ELSE 0
             inv2 == IF done THEN Inventory_add(inv, r.outputs) ELSE inv
             t2 == IF done
                   THEN [t EXCEPT !.qty_remaining = @ - 1,
                                  !.time_left_unit = r.time_per_unit]
                   ELSE [t EXCEPT !.time_left_unit = @ - remaining]
         IN  IF t2.qty_remaining = 0
             THEN [task |-> NoTask, items |-> inv2]
             ELSE craft_loop(<<t2>>, rem2, inv2)

\* Crafter.update: [task, items]
Crafter_update(task, inv, area, dt) ==
    IF task = NoTask THEN [task |-> task, items |-> inv]
    ELSE IF station_left(task, area) THEN [task |-> NoTask, items |-> inv]
    ELSE craft_loop(task, dt, inv)

\* ------------------------------------------------------- grid geometry
\* neighbors_4: the list [(x-1,y), (x+1,y), (x,y-1), (x,y+1)]
neighbors_4(cell) ==
    << <<cell[1] - 1, cell[2]>>, <<cell[1] + 1, cell[2]>>,
       <<cell[1], cell[2] - 1>>, <<cell[1], cell[2] + 1>> >>

\* in_bounds
in_bounds(cell, width_cells, height_cells) ==
    /\ 0 <= cell[1] /\ cell[1] < width_cells
    /\ 0 <= cell[2] /\ cell[2] < height_cells

Abs(n) == IF n < 0 THEN -n ELSE n

\* manhattan
manhattan(a, b) == Abs(a[1] - b[1]) + Abs(a[2] - b[2])

\* ------------------------------------------------------------ pathfinding
\* The default of g_score.get(nb, 1_000_000_000).
NoScore == 1000000000

\* Order of the heap entries (f, cell): Python compares the tuples, f first,
\* then the cell's x, then its y.
entry_less(a, b) ==
    \/ a[1] < b[1]
    \/ a[1] = b[1] /\ a[2][1] < b[2][1]
    \/ a[1] = b[1] /\ a[2][1] = b[2][1] /\ a[2][2] < b[2][2]

\* A pop that returns the greatest entry instead of the least.
heappop_Greatest(open_heap) ==
    CHOOSE e \in open_heap : \A o \in open_heap \ {e} : entry_less(o, e)

\* heapq.heappop: the least entry.  The heap is a set of entries: astar
\* pushes a cell only with a smaller g than before, so no entry is pushed
\* twice.
heappop(open_heap) ==
    CHOOSE e \in open_heap : \A o \in open_heap \ {e} : entry_less(e, o)

RECURSIVE reconstruct_walk(_, _, _, _)
\* The while loop of reconstruct_path; out is built goal first.
reconstruct_walk(came_from, start, cur, out) ==
    IF cur = start THEN out
    ELSE reconstruct_walk(came_from, start, came_from[cur],
                          <<came_from[cur]>> \o out)

\* reconstruct_path
reconstruct_path(came_from, start, goal) ==
    IF goal \notin DOMAIN came_from /\ goal # start THEN <<>>
    ELSE reconstruct_walk(came_from, start, goal, <<goal>>)

\* f = tentative + manhattan(nb, goal)
f_score(tentative, nb, goal) == tentative + manhattan(nb, goal)

\* dict.get(key, default)
dict_get(dict, key, default) == IF key \in DOMAIN dict THEN dict[key] ELSE default

RECURSIVE astar_neighbors(_, _, _, _, _)
\* The for loop over neighbors_4(current), from its i-th neighbour on;
\* st = [open_heap, came_from, g_score].
astar_neighbors(st, current, i, goal, grid) ==
    IF i > Len(neighbors_4(current)) THEN st
    ELSE LET nb == neighbors_4(current)[i]
             tentative == st.g_score[current] + 1
             skip == \/ ~in_bounds(nb, grid.width_cells, grid.height_cells)
                     \/ nb \in grid.blocked
                     \/ ~(tentative < dict_get(st.g_score, nb, NoScore))
             st2 == IF skip THEN st
                    ELSE [open_heap |-> st.open_heap
                              \cup {<<f_score(tentative, nb, goal), nb>>},
                          came_from |-> (nb :> current) @@ st.came_from,
                          g_score |-> (nb :> tentative) @@ st.g_score]
         IN  astar_neighbors(st2, current, i + 1, goal, grid)

RECURSIVE astar_loop(_, _, _, _, _)
\* The while loop of astar.
astar_loop(st, closed, start, goal, grid) ==
    IF st.open_heap = {} THEN <<>>
    ELSE LET e == heappop(st.open_heap)
             current == e[2]
             popped == [st EXCEPT !.open_heap = @ \ {e}]
         IN  IF current = goal
             THEN reconstruct_path(st.came_from, start, goal)
             ELSE IF current \in closed
             THEN astar_loop(popped, closed, start, goal, grid)
             ELSE astar_loop(astar_neighbors(popped, current, 1, goal, grid),
                             closed \cup {current}, start, goal, grid)

\* astar(start, goal, grid)
astar(start, goal, grid) ==
    IF start = goal THEN <<start>>
    ELSE IF ~in_bounds(start, grid.width_cells, grid.height_cells) THEN <<>>
    ELSE IF ~in_bounds(goal, grid.width_cells, grid.height_cells) THEN <<>>
    ELSE IF start \in grid.blocked \/ goal \in grid.blocked THEN <<>>
    ELSE astar_loop([open_heap |-> {<<0, start>>}, came_from |-> <<>>,
                     g_score |-> (start :> 0)],
                    {}, start, goal, grid)

\* ---------------------------------------------------- calls (pathfinding)
GRID_CELLS == (0 .. GridW - 1) \X (0 .. GridH - 1)

\* Cells a caller may pass: the grid's cells and two cells outside it.
QUERY_CELLS == GRID_CELLS \cup {<<-1, 0>>, <<GridW - 1, GridH>>}

\* The grids of the model: every blocked set of at most MaxBlocked cells.
GRIDS ==
    {[width_cells |-> GridW, height_cells |-> GridH, blocked |-> b] :
        b \in {s \in SUBSET GRID_CELLS : Cardinality(s) <= MaxBlocked}}

\* path = astar(start, goal, grid)
FindPath ==
    /\ ~pf_done
    /\ pf_path' = astar(pf_start, pf_goal, pf_grid)
    /\ pf_done' = TRUE
    /\ UNCHANGED <<pf_start, pf_goal, pf_grid>>
    /\ UNCHANGED notPathVars

\* Any query: start, goal and grid.
PathInit ==
    /\ pf_start \in QUERY_CELLS
    /\ pf_goal \in QUERY_CELLS
    /\ pf_grid \in GRIDS
    /\ pf_path = <<>>
    /\ pf_done = FALSE

\* No query.
PathIdle ==
    /\ pf_start = <<0, 0>>
    /\ pf_goal = <<0, 0>>
    /\ pf_grid = [width_cells |-> GridW, height_cells |-> GridH, blocked |-> {}]
    /\ pf_path = <<>>
    /\ pf_done = FALSE

\* ------------------------------------------- calls (Inventory, Crafter)
\* The observation of a call: its name, its arguments, the task the crafter
\* held when it was made, and the result it returned.
NoCall ==
    [op |-> "init", recipe |-> None, qty |-> 0, dt |-> 0, req |-> <<>>,
     task0 |-> NoTask, ok |-> TRUE, err |-> None, cell0 |-> <<>>]

InBound(inv) == \A k \in DOMAIN inv : inv[k] <= MaxCount

\* Arguments of Inventory.add / Inventory.remove: dicts over some items.
DELTAS ==
    UNION {[S -> -1 .. MaxDelta] : S \in (SUBSET ITEMS) \ {{}}}

\* What the agent gathers in the Crafter specification: one item type a call.
GATHERED == UNION {[{k} -> 1 .. MaxDelta] : k \in ITEMS}

\* inventory.add(delta)
InvAdd(delta) ==
    /\ InBound(Inventory_add(items, delta))
    /\ items' = Inventory_add(items, delta)
    /\ ret' = [NoCall EXCEPT !.op = "add", !.req = delta]
    /\ UNCHANGED <<_task, _current_area_name>>
    /\ UNCHANGED notCraftVars

\* inventory.remove(req)
InvRemove(req) ==
    LET r == Inventory_remove(items, req)
    IN  /\ InBound(r.items)
        /\ items' = r.items
        /\ ret' = [NoCall EXCEPT !.op = "remove", !.req = req, !.ok = r.ok]
        /\ UNCHANGED <<_task, _current_area_name>>
        /\ UNCHANGED notCraftVars

\* crafter.start(recipe_name, qty)
Start(recipe_name, qty) ==
    LET r == Crafter_start(_task, items, _current_area_name, recipe_name, qty)
    IN  /\ _task' = r.task
        /\ items' = r.items
        /\ ret' = [NoCall EXCEPT !.op = "start", !.recipe = recipe_name,
                                 !.qty = qty, !.task0 = _task,
                                 !.ok = r.ok, !.err = r.err]
        /\ UNCHANGED _current_area_name
        /\ UNCHANGED notCraftVars

\* crafter.update(dt)
Update(dt) ==
    LET r == Crafter_update(_task, items, _current_area_name, dt)
    IN  /\ InBound(r.items)
        /\ _task' = r.task
        /\ items' = r.items
        /\ ret' = [NoCall EXCEPT !.op = "update", !.dt = dt, !.task0 = _task]
        /\ UNCHANGED _current_area_name
        /\ UNCHANGED notCraftVars

\* cancel that hands the inputs of the units not yet produced back.
Cancel_Refund ==
    /\ _task' = NoTask
    /\ items' = IF _task = NoTask THEN items
                ELSE Inventory_add(items,
                        total_inputs(RECIPES[_task[1].recipe],
                                     _task[1].qty_remaining))
    /\ ret' = [NoCall EXCEPT !.op = "cancel", !.task0 = _task]
    /\ UNCHANGED _current_area_name
    /\ UNCHANGED notCraftVars

\* crafter.cancel()
Cancel ==
    /\ _task' = NoTask
    /\ ret' = [NoCall EXCEPT !.op = "cancel", !.task0 = _task]
    /\ UNCHANGED <<items, _current_area_name>>
    /\ UNCHANGED notCraftVars

\* The owner's current area name changes (NPCAgent.set_current_area_name).
SetArea(a) ==
    /\ a # _current_area_name
    /\ _current_area_name' = a
    /\ ret' = [NoCall EXCEPT !.op = "set_area"]
    /\ UNCHANGED <<items, _task>>
    /\ UNCHANGED notCraftVars

CraftInit ==
    /\ items = <<>>
    /\ _task = NoTask
    /\ _current_area_name = None
    /\ ret = NoCall

CraftNext ==
    \/ \E d \in GATHERED : InvAdd(d)
    \/ \E n \in RECIPE_NAMES, q \in -1 .. MaxQty : Start(n, q)
    \/ \E dt \in 0 .. MaxDt : Update(dt)
    \/ Cancel
    \/ \E a \in AREA_CLASS_NAMES \cup {None} : SetArea(a)

\* The Inventory alone: any add and remove.
InvNext ==
    \/ \E d \in DELTAS : InvAdd(d)
    \/ \E d \in DELTAS : InvRemove(d)

\* ------------------------------------------------------------- GridMover
\* GridMover(grid_size, speed_cells_per_sec): the constructor's arguments.
\* grid_size is even, so that cell centres are whole pixels.
grid_size == 2
speed_cells_per_sec == 1

\* update's dt counts ticks of 1 / grid_size second.
TICKS_PER_SEC == grid_size

\* The time (ticks) of 1 / speed_cells_per_sec second: one cell's traversal.
CellTime == TICKS_PER_SEC \div speed_cells_per_sec

Min(a, b) == IF a <= b THEN a ELSE b

Max(a, b) == IF a >= b THEN a ELSE b

\* to_cell(pos_xy, grid_size): x // grid_size, y // grid_size
to_cell(pos_xy, gs) == <<pos_xy[1] \div gs, pos_xy[2] \div gs>>

\* (c + 0.5) * grid_size
cell_center(c, gs) == c * gs + gs \div 2

to_world(cell, gs) == <<cell_center(cell[1], gs), cell_center(cell[2], gs)>>

\* A GridMover is [path, _current_index, _pos_world]; path[i] of the code is
\* path[i + 1] here.
GridMover_new ==
    [path |-> <<>>, _current_index |-> 0, _pos_world |-> <<0, 0>>]

set_cell_position(m, cell) ==
    [path |-> <<>>, _current_index |-> 0,
     _pos_world |-> to_world(cell, grid_size)]

\* set_path that keeps the traversal index.
set_path_KeepIndex(m, p) ==
    [path |-> p, _current_index |-> m._current_index,
     _pos_world |-> IF p # <<>> THEN to_world(p[1], grid_size)
                    ELSE m._pos_world]

\* set_path that leaves the position where it is.
set_path_NoSnap(m, p) ==
    [path |-> p, _current_index |-> 0, _pos_world |-> m._pos_world]

set_path(m, p) ==
    [path |-> p, _current_index |-> 0,
     _pos_world |-> IF p # <<>> THEN to_world(p[1], grid_size)
                    ELSE m._pos_world]

is_idle(m) == m.path = <<>> \/ m._current_index >= Len(m.path) - 1

\* Optional[Cell]
current_cell(m) ==
    IF m.path = <<>> THEN <<>> ELSE <<m.path[m._current_index + 1]>>

\* Optional[Cell]
target_cell(m) ==
    IF is_idle(m) THEN <<>> ELSE <<m.path[m._current_index + 2]>>

\* Whether a coordinate that had d to go has reached or passed its target t.
arrived(d, v, t) == d = 0 \/ (d > 0 /\ v >= t) \/ (d < 0 /\ v <= t)

\* update without the snap and index advance on arrival.
GridMover_update_NoSnap(m, dt) ==
    IF is_idle(m) THEN m
    ELSE
    LET n == m.path[m._current_index + 2]
        x == m._pos_world[1]
        y == m._pos_world[2]
        dx == cell_center(n[1], grid_size) - x
        dy == cell_center(n[2], grid_size) - y
        step == (speed_cells_per_sec * grid_size * dt) \div TICKS_PER_SEC
    IN  IF Abs(dx) + Abs(dy) = 0
        THEN [m EXCEPT !._current_index = @ + 1]
        ELSE IF Abs(dx) > 0
        THEN [m EXCEPT !._pos_world = <<x + Max(-step, Min(step, dx)), y>>]
        ELSE [m EXCEPT !._pos_world = <<x, y + Max(-step, Min(step, dy))>>]

\* update moving by the whole step, without the clamp and the snap.
GridMover_update_Unclamped(m, dt) ==
    IF is_idle(m) THEN m
    ELSE
    LET n == m.path[m._current_index + 2]
        x == m._pos_world[1]
        y == m._pos_world[2]
        tx == cell_center(n[1], grid_size)
        ty == cell_center(n[2], grid_size)
        dx == tx - x
        dy == ty - y
        step == (speed_cells_per_sec * grid_size * dt) \div TICKS_PER_SEC
    IN  IF Abs(dx) + Abs(dy) = 0
        THEN [m EXCEPT !._current_index = @ + 1]
        ELSE
        LET x2 == IF dx > 0 THEN x + step ELSE IF dx < 0 THEN x - step ELSE x
            y2 == IF dx # 0 THEN y
                  ELSE IF dy > 0 THEN y + step ELSE y - step
        IN  IF arrived(dx, x2, tx) /\ arrived(dy, y2, ty)
            THEN [m EXCEPT !._pos_world = <<x2, y2>>,
                           !._current_index = @ + 1]
            ELSE [m EXCEPT !._pos_world = <<x2, y2>>]

RECURSIVE GridMover_update_Carry(_, _)
\* update spending the step left after an arrival on the next segment.
GridMover_update_Carry(m, dt) ==
    IF is_idle(m) THEN m
    ELSE
    LET n == m.path[m._current_index + 2]
        x == m._pos_world[1]
        y == m._pos_world[2]
        tx == cell_center(n[1], grid_size)
        ty == cell_center(n[2], grid_size)
        dx == tx - x
        dy == ty - y
        step == (speed_cells_per_sec * grid_size * dt) \div TICKS_PER_SEC
    IN  IF Abs(dx) + Abs(dy) = 0
        THEN [m EXCEPT !._current_index = @ + 1]
        ELSE IF step >= Abs(dx) + Abs(dy)
        THEN GridMover_update_Carry(
                [m EXCEPT !._pos_world = <<tx, ty>>,
                          !._current_index = @ + 1],
                dt - ((Abs(dx) + Abs(dy)) * TICKS_PER_SEC)
                       \div (speed_cells_per_sec * grid_size))
        ELSE IF Abs(dx) > 0
        THEN [m EXCEPT !._pos_world = <<x + Max(-step, Min(step, dx)), y>>]
        ELSE [m EXCEPT !._pos_world = <<x, y + Max(-step, Min(step, dy))>>]

GridMover_update(m, dt) ==
    IF is_idle(m) THEN m
    ELSE
    LET n == m.path[m._current_index + 2]
        x == m._pos_world[1]
        y == m._pos_world[2]
        tx == cell_center(n[1], grid_size)
        ty == cell_center(n[2], grid_size)
        dx == tx - x
        dy == ty - y
        pixels_per_sec == speed_cells_per_sec * grid_size
        step == (pixels_per_sec * dt) \div TICKS_PER_SEC
    IN  IF Abs(dx) + Abs(dy) = 0
        THEN [m EXCEPT !._current_index = @ + 1]
        ELSE
        LET x2 == IF Abs(dx) > 0 THEN x + Max(-step, Min(step, dx)) ELSE x
            y2 == IF Abs(dx) > 0 THEN y
                  ELSE IF Abs(dy) > 0 THEN y + Max(-step, Min(step, dy))
                  ELSE y
            arrived_x == arrived(dx, x2, tx)
            arrived_y == arrived(dy, y2, ty)
        IN  IF arrived_x /\ arrived_y
            THEN [m EXCEPT !._pos_world = <<tx, ty>>,
                           !._current_index = @ + 1]
            ELSE [m EXCEPT !._pos_world = <<x2, y2>>]

\* ------------------------------------------------------ calls (GridMover)
mover == [path |-> path, _current_index |-> _current_index,
          _pos_world |-> _pos_world]

\* The longest running time the model tells apart.
ElapsedCap == 2 * MaxPathLen * CellTime

RECURSIVE WalksFrom(_, _)
\* The 4-connected walks of at most n cells that start at cell origin.
WalksFrom(origin, n) ==
    IF n <= 1 THEN {<<origin>>}
    ELSE LET shorter == WalksFrom(origin, n - 1)
         IN  shorter \cup
             {Append(w, neighbors_4(w[Len(w)])[i]) :
                 w \in {s \in shorter : Len(s) = n - 1}, i \in 1 .. 4}

\* The paths handed to set_path in a run: what astar or any caller may give,
\* walks that turn and walks that come back included.
RUN_PATHS == WalksFrom(<<0, 0>>, MaxPathLen)

NoMove == [op |-> "init", dt |-> 0]

\* mover.set_path(p); idle0 records whether the mover was idle at the call.
SetPath(p) ==
    LET m == set_path(mover, p)
    IN  /\ path' = m.path
        /\ _current_index' = m._current_index
        /\ _pos_world' = m._pos_world
        /\ mv_elapsed' = 0
        /\ mv_long' = FALSE
        /\ mv_ret' = [op |-> "set_path", dt |-> 0, arg |-> p,
                      idle0 |-> is_idle(mover)]
        /\ UNCHANGED notMoverVars

\* The first call of a run: mover.set_path(p) on the constructed mover.
SetPathFirst(p) ==
    /\ mv_ret.op = "init"
    /\ SetPath(p)

\* mover.set_cell_position(cell)
SetCellPosition(cell) ==
    LET m == set_cell_position(mover, cell)
    IN  /\ path' = m.path
        /\ _current_index' = m._current_index
        /\ _pos_world' = m._pos_world
        /\ mv_elapsed' = 0
        /\ mv_long' = FALSE
        /\ mv_ret' = [op |-> "set_cell_position", dt |-> 0, arg |-> cell]
        /\ UNCHANGED notMoverVars

\* mover.update(dt); mv_elapsed adds up the dt since the path was set and
\* mv_long records a dt longer than one cell's traversal.
MoverUpdate(dt) ==
    LET m == GridMover_update(mover, dt)
    IN  /\ path' = m.path
        /\ _current_index' = m._current_index
        /\ _pos_world' = m._pos_world
        /\ mv_elapsed' = Min(ElapsedCap, mv_elapsed + dt)
        /\ mv_long' = (mv_long \/ dt > CellTime)
        /\ mv_ret' = [op |-> "update", dt |-> dt]
        /\ UNCHANGED notMoverVars

MoverInit ==
    /\ path = GridMover_new.path
    /\ _current_index = GridMover_new._current_index
    /\ _pos_world = GridMover_new._pos_world
    /\ mv_elapsed = 0
    /\ mv_long = FALSE
    /\ mv_ret = NoMove

\* One run of a mover: a path is set, then the game loop updates it.
MoverRunNext ==
    \/ \E p \in RUN_PATHS : SetPathFirst(p)
    \/ \E dt \in 0 .. MaxMoveDt : MoverUpdate(dt)

\* Paths of a caller that is not the pathfinder: a cell twice, a diagonal
\* jump.
ODD_PATHS == { << <<0, 0>>, <<0, 0>> >>, << <<0, 0>>, <<1, 1>> >> }

\* The walks a caller hands over at any time: those of RUN_PATHS that stay
\* on the four cells around the corner <<1, 1>>.
NEW_PATHS ==
    {p \in RUN_PATHS :
        \A i \in DOMAIN p : p[i] \in {0, 1} \X {0, 1}}

\* The cells the mover is put on.
PLACED_CELLS == {<<0, 0>>, <<1, 2>>}

\* Any use of a mover: paths are set at any time, the empty one included,
\* the mover is put on cells, and the game loop updates it.
MoverNext ==
    \/ \E p \in NEW_PATHS \cup ODD_PATHS \cup {<<>>} : SetPath(p)
    \/ \E c \in PLACED_CELLS : SetCellPosition(c)
    \/ \E dt \in 0 .. MaxMoveDt : MoverUpdate(dt)

\* ----------------------------------------------------------- AreaManager
\* A rect is <<l, b, r, t>>; an area is [id, cls, rects, entrances] with cls
\* the name of its class (BakeryArea, FarmArea, ...).
\* The cells _index_area gives a rect: range(l, r) x range(b, t).
rect_index_cells(rect) ==
    (rect[1] .. rect[3] - 1) \X (rect[2] .. rect[4] - 1)

\* RectArea.contains: x1 <= x <= x2 and y1 <= y <= y2 for one of the rects
contains(area, cell) ==
    \E i \in DOMAIN area.rects :
        LET r == area.rects[i]
        IN  /\ r[1] <= cell[1] /\ cell[1] <= r[3]
            /\ r[2] <= cell[2] /\ cell[2] <= r[4]

\* RectArea.perimeter_cells, as a set
perimeter_cells(area) ==
    UNION {LET r == area.rects[i]
           IN  ((r[1] .. r[3]) \X {r[2], r[4]})
               \cup ({r[1], r[3]} \X (r[2] + 1 .. r[4] - 1)) :
           i \in DOMAIN area.rects}

perimeter_block_cells(area) == perimeter_cells(area) \ area.entrances

\* dict.get(key, default)
get_or(dict, key, default) ==
    IF key \in DOMAIN dict THEN dict[key] ELSE default

\* One rect of _index_area: setdefault(cell, []).append(area_id) for its cells.
index_rect(index, rect, area_id) ==
    [c \in DOMAIN index \cup rect_index_cells(rect) |->
        IF c \in rect_index_cells(rect)
        THEN Append(get_or(index, c, <<>>), area_id)
        ELSE index[c]]

RECURSIVE index_rects(_, _, _, _)
index_rects(index, rects, i, area_id) ==
    IF i > Len(rects) THEN index
    ELSE index_rects(index_rect(index, rects[i], area_id), rects, i + 1,
                     area_id)

_index_area(index, area) == index_rects(index, area.rects, 1, area.id)

RECURSIVE build_from(_, _, _)
build_from(index, areas, i) ==
    IF i > Len(areas) THEN index
    ELSE build_from(_index_area(index, areas[i]), areas, i + 1)

\* _build_index: clear, then index every area in the dict's order
_build_index(areas) == build_from(<<>>, areas, 1)

\* An AreaManager is [_areas, _cell_to_areas, _perimeter_cache]; _areas is
\* the dict id -> area as the sequence of its values in insertion order.
AreaManager_new ==
    [_areas |-> <<>>, _cell_to_areas |-> _build_index(<<>>),
     _perimeter_cache |-> <<>>]

area_ids(areas) == {areas[i].id : i \in DOMAIN areas}

\* self._areas[area_id]
area_of(areas, area_id) ==
    areas[CHOOSE i \in DOMAIN areas : areas[i].id = area_id]

\* add without the assert: the dict entry is overwritten in place.
AreaManager_add_NoAssert(am, area) ==
    [am |-> [_areas |-> IF area.id \in area_ids(am._areas)
                        THEN [i \in DOMAIN am._areas |->
                                IF am._areas[i].id = area.id THEN area
                                ELSE am._areas[i]]
                        ELSE Append(am._areas, area),
             _cell_to_areas |-> _index_area(am._cell_to_areas, area),
             _perimeter_cache |-> <<>>],
     raised |-> None]

\* add: [am, raised]
AreaManager_add(am, area) ==
    IF area.id \in area_ids(am._areas)
    THEN [am |-> am, raised |-> "AssertionError"]
    ELSE [am |-> [_areas |-> Append(am._areas, area),
                  _cell_to_areas |-> _index_area(am._cell_to_areas, area),
                  _perimeter_cache |-> <<>>],
          raised |-> None]

\* remove without the rebuild of the index.
AreaManager_remove_NoRebuild(am, area_id) ==
    IF area_id \notin area_ids(am._areas) THEN am
    ELSE [am EXCEPT !._areas = SelectSeq(am._areas,
                                         LAMBDA a : a.id # area_id),
                    !._perimeter_cache = <<>>]

AreaManager_remove(am, area_id) ==
    IF area_id \notin area_ids(am._areas) THEN am
    ELSE LET rest == SelectSeq(am._areas, LAMBDA a : a.id # area_id)
         IN  [_areas |-> rest, _cell_to_areas |-> _build_index(rest),
              _perimeter_cache |-> <<>>]

rebuild_index(am) ==
    [am EXCEPT !._cell_to_areas = _build_index(am._areas),
               !._perimeter_cache = <<>>]

areas_for_cell(am, cell) == get_or(am._cell_to_areas, cell, <<>>)

\* area_at: Optional[area]
area_at(am, cell) ==
    LET ids == get_or(am._cell_to_areas, cell, <<>>)
    IN  IF ids = <<>> THEN <<>>
        ELSE <<area_of(am._areas, ids[Len(ids)])>>

\* perimeter_blocked_cells returning the cached set itself.
perimeter_blocked_cells_NoCopy(am) ==
    LET out == UNION {perimeter_block_cells(am._areas[i]) :
                        i \in DOMAIN am._areas}
        cache == IF am._perimeter_cache = <<>> THEN out
                 ELSE am._perimeter_cache[1]
    IN  [am |-> [am EXCEPT !._perimeter_cache = <<cache>>],
         value |-> cache, copy |-> FALSE]

\* perimeter_blocked_cells: [am, value, copy]; copy tells that the value
\* is a new set object, set(self._perimeter_cache), not the cache.
perimeter_blocked_cells(am) ==
    LET out == UNION {perimeter_block_cells(am._areas[i]) :
                        i \in DOMAIN am._areas}
        cache == IF am._perimeter_cache = <<>> THEN out
                 ELSE am._perimeter_cache[1]
    IN  [am |-> [am EXCEPT !._perimeter_cache = <<cache>>],
         value |-> cache, copy |-> TRUE]

\* ---------------------------------------------------- calls (AreaManager)
manager == [_areas |-> _areas, _cell_to_areas |-> _cell_to_areas,
            _perimeter_cache |-> _perimeter_cache]

\* The areas a caller may build: two squares that share cell <<1, 1>>, an L
\* made of two rects that overlap each other on <<1, 1>>, a strip, and a
\* second area with the id "A".
AREAS ==
    { [id |-> "A", cls |-> "BakeryArea", rects |-> << <<0, 0, 2, 2>> >>,
       entrances |-> {<<1, 0>>}],
      [id |-> "A", cls |-> "FarmArea", rects |-> << <<1, 0, 3, 2>> >>,
       entrances |-> {}],
      [id |-> "B", cls |-> "BakeryArea", rects |-> << <<1, 1, 3, 3>> >>,
       entrances |-> {}],
      [id |-> "L", cls |-> "FarmArea",
       rects |-> << <<0, 1, 2, 3>>, <<1, 0, 3, 2>> >>,
       entrances |-> {<<1, 1>>}],
      [id |-> "S", cls |-> "BarArea", rects |-> << <<0, 1, 3, 2>> >>,
       entrances |-> {}] }

AREA_IDS == {a.id : a \in AREAS} \cup {"none"}

\* The cells asked about.
AREA_CELLS == (0 .. AreaSpan) \X (0 .. AreaSpan)

NoAreaCall == [op |-> "init", id |-> None, raised |-> None]

\* The order of the ids' most recent insertions after id was inserted.
inserted(order, id) == Append(SelectSeq(order, LAMBDA i : i # id), id)

\* manager.add(area)
AreaAdd(area) ==
    LET r == AreaManager_add(manager, area)
    IN  /\ _areas' = r.am._areas
        /\ _cell_to_areas' = r.am._cell_to_areas
        /\ _perimeter_cache' = r.am._perimeter_cache
        /\ am_order' = IF r.raised = None THEN inserted(am_order, area.id)
                       ELSE am_order
        /\ am_ret' = [op |-> "add", id |-> area.id, raised |-> r.raised]
        /\ UNCHANGED notAreaVars

\* manager.remove(area_id)
AreaRemove(area_id) ==
    LET am == AreaManager_remove(manager, area_id)
    IN  /\ _areas' = am._areas
        /\ _cell_to_areas' = am._cell_to_areas
        /\ _perimeter_cache' = am._perimeter_cache
        /\ am_order' = SelectSeq(am_order, LAMBDA i : i # area_id)
        /\ am_ret' = [op |-> "remove", id |-> area_id, raised |-> None]
        /\ UNCHANGED notAreaVars

\* manager.rebuild_index()
AreaRebuild ==
    LET am == rebuild_index(manager)
    IN  /\ _areas' = am._areas
        /\ _cell_to_areas' = am._cell_to_areas
        /\ _perimeter_cache' = am._perimeter_cache
        /\ am_ret' = [op |-> "rebuild_index", id |-> None, raised |-> None]
        /\ UNCHANGED am_order
        /\ UNCHANGED notAreaVars

\* manager.perimeter_blocked_cells()
AreaPerimeter ==
    LET r == perimeter_blocked_cells(manager)
    IN  /\ _areas' = r.am._areas
        /\ _cell_to_areas' = r.am._cell_to_areas
        /\ _perimeter_cache' = r.am._perimeter_cache
        /\ am_ret' = [op |-> "perimeter_blocked_cells", id |-> None,
                      raised |-> None, value |-> r.value,
                      copy |-> r.copy]
        /\ UNCHANGED am_order
        /\ UNCHANGED notAreaVars

\* The cells a caller adds to or discards from a set it was handed.
CALLER_CELLS == {<<0, 0>>, <<3, 0>>}

\* The caller of perimeter_blocked_cells changes the set it was handed:
\* s.add(cell) or s.discard(cell). The cache changes with it when the set
\* handed out is the cache object.
CallerChanges(cell) ==
    /\ am_ret.op \in {"perimeter_blocked_cells", "caller_change"}
    /\ LET s == IF cell \in am_ret.value THEN am_ret.value \ {cell}
                ELSE am_ret.value \cup {cell}
       IN  /\ am_ret' = [am_ret EXCEPT !.op = "caller_change", !.value = s]
           /\ _perimeter_cache' = IF am_ret.copy THEN _perimeter_cache
                                  ELSE <<s>>
    /\ UNCHANGED <<_areas, _cell_to_areas, am_order>>
    /\ UNCHANGED notAreaVars

AreaInit ==
    /\ _areas = AreaManager_new._areas
    /\ _cell_to_areas = AreaManager_new._cell_to_areas
    /\ _perimeter_cache = AreaManager_new._perimeter_cache
    /\ am_order = <<>>
    /\ am_ret = NoAreaCall

AreaNext ==
    \/ \E a \in AREAS : AreaAdd(a)
    \/ \E i \in AREA_IDS : AreaRemove(i)
    \/ AreaRebuild
    \/ AreaPerimeter

\* --------------------------------------------------------- ObjectManager
\* items_type.ITEM_CLASSES: the item types make_item knows
ITEM_CLASSES == {"wheat", "bread"}

\* ItemErrorTypes
BLOCKED_CELL == "BLOQUED_CELL"
OCCUPIED_CELL == "OCCUPIED_CELL"
QTY_GT1_SINGLE_CELL == "QTY_GT1_SINGLE_CELL"
NO_ITEM == "ERROR_ITEM"
OBJ_NOT_FOUND == "OBJ_NOT_FOUND"
NO_MATCHING_TYPE == "NO_MATCHING_TYPE"

\* An ObjectManager is [_objects, obj_by_cell, world_blocked] together with
\* the module's _id_counter (the number the next WorldObject's id takes).
\* __init__ binds _objects, obj_by_cell, _object_npc and world_blocked; no
\* attribute named objects is ever bound, so evaluating self.objects raises
\* AttributeError.
ObjectManager_new ==
    [_objects |-> <<>>, obj_by_cell |-> <<>>, world_blocked |-> {},
     _id_counter |-> 1]

\* The outcome of a call: the manager afterwards, the exception raised (or
\* None) and the value returned.
Returned(om, value) == [om |-> om, raised |-> None, value |-> value]

Raised(om, exception) == [om |-> om, raised |-> exception, value |-> <<>>]

_is_occupied(om, cell) == cell \in DOMAIN om.obj_by_cell

set_world_blocked(om, blocked) ==
    [om EXCEPT !.world_blocked = @ \cup blocked]

\* can_drop: <<ok, error>>
can_drop(om, cell) ==
    IF cell \in om.world_blocked THEN <<FALSE, BLOCKED_CELL>>
    ELSE IF cell \in DOMAIN om.obj_by_cell THEN <<FALSE, OCCUPIED_CELL>>
    ELSE <<TRUE, None>>

\* dict[key] = value
dict_set(dict, key, value) ==
    [k \in DOMAIN dict \cup {key} |-> IF k = key THEN value ELSE dict[k]]

\* The WorldObject an items_type class builds for a cell: held_by is None and
\* the id is the next number of _id_counter (the dict key it is stored under).
new_object(item_type, cell) ==
    [cell |-> cell, name |-> item_type, held_by |-> None]

\* add(o) for one object o = make_item(item_type, cell) built by the caller:
\* o is stored in _objects, then _mark_add raises if its cell is occupied.
ObjectManager_add(om, item_type, cell) ==
    LET obj_id == om._id_counter
        stored == [om EXCEPT
                     !._objects = dict_set(@, obj_id,
                                           new_object(item_type, cell)),
                     !._id_counter = @ + 1]
    IN  IF cell \in DOMAIN om.obj_by_cell
        THEN Raised(stored, "ValueError")
        ELSE Returned([stored EXCEPT
                         !.obj_by_cell = dict_set(@, cell, obj_id)], <<>>)

\* get_obj: self.objects.get(obj_id) raises AttributeError.
ObjectManager_get_obj(om, obj_id) == Raised(om, "AttributeError")

\* The obj_id None (object ids are the numbers from 1 on).
NoObjId == 0

\* can_pick: the value is <<ok, error, obj_id>>; with a type filter the
\* lookup self.objects.get(oid) raises AttributeError.
ObjectManager_can_pick(om, cell, type_filter) ==
    IF cell \notin DOMAIN om.obj_by_cell
    THEN Returned(om, <<FALSE, NO_ITEM, NoObjId>>)
    ELSE IF type_filter = None
    THEN Returned(om, <<TRUE, None, om.obj_by_cell[cell]>>)
    ELSE Raised(om, "AttributeError")

\* A spawn that registers the object without looking at the cell.
ObjectManager_spawn_Unchecked(om, item_type, cell) ==
    LET obj_id == om._id_counter
    IN  Returned([om EXCEPT
                    !._objects = [i \in DOMAIN @ \cup {obj_id} |->
                                    IF i = obj_id
                                    THEN [cell |-> cell, name |-> item_type,
                                          held_by |-> None]
                                    ELSE @[i]],
                    !.obj_by_cell = [c \in DOMAIN @ \cup {cell} |->
                                       IF c = cell THEN obj_id ELSE @[c]],
                    !._id_counter = @ + 1],
                 obj_id)

\* spawn: make_item builds the object (taking an id from _id_counter); obj.id
\* is set, so len(self.objects) is not evaluated; self.objects[obj_id] = obj
\* raises AttributeError before anything is registered.
ObjectManager_spawn(om, item_type, cell) ==
    IF _is_occupied(om, cell) THEN Raised(om, "ValueError")
    ELSE IF item_type \notin ITEM_CLASSES THEN Raised(om, "ValueError")
    ELSE Raised([om EXCEPT !._id_counter = @ + 1], "AttributeError")

\* commit_pick: obj = self.objects.get(obj_id) raises AttributeError.
ObjectManager_commit_pick(om, agent_id, obj_id) ==
    Raised(om, "AttributeError")

\* commit_drop: the two checks return an error tuple; past them make_item and
\* the assignment to self.objects behave as in spawn.
ObjectManager_commit_drop(om, agent_id, cell, item_type, qty) ==
    IF qty # 1 THEN Returned(om, <<FALSE, QTY_GT1_SINGLE_CELL, <<>> >>)
    ELSE IF ~can_drop(om, cell)[1]
    THEN Returned(om, <<FALSE, can_drop(om, cell)[2], <<>> >>)
    ELSE IF item_type \notin ITEM_CLASSES THEN Raised(om, "ValueError")
    ELSE Raised([om EXCEPT !._id_counter = @ + 1], "AttributeError")

\* -------------------------------------------------- calls (ObjectManager)
ledger == [_objects |-> _objects, obj_by_cell |-> obj_by_cell,
           world_blocked |-> world_blocked, _id_counter |-> _id_counter]

LEDGER_CELLS == (0 .. LedgerSpan) \X {0}

\* Item types a caller may name ("gem" is not in ITEM_CLASSES).
ITEM_TYPES == ITEM_CLASSES \cup {"gem"}

AGENT_IDS == {"npc1"}

NoLedgerCall ==
    [op |-> "init", cell |-> <<>>, item_type |-> None, qty |-> 0,
     obj_id |-> 0, raised |-> None, value |-> <<>>, type_filter |-> None]

SetLedger(om) ==
    /\ _objects' = om._objects
    /\ obj_by_cell' = om.obj_by_cell
    /\ world_blocked' = om.world_blocked
    /\ _id_counter' = om._id_counter

\* om.spawn(item_type, cell)
Spawn(item_type, cell) ==
    LET r == ObjectManager_spawn(ledger, item_type, cell)
    IN  /\ _id_counter <= MaxIds
        /\ SetLedger(r.om)
        /\ om_ret' = [NoLedgerCall EXCEPT !.op = "spawn", !.cell = cell,
                        !.item_type = item_type, !.raised = r.raised,
                        !.value = r.value]
        /\ UNCHANGED notLedgerVars

\* om.commit_pick(agent_id=agent_id, obj_id=obj_id)
CommitPick(agent_id, obj_id) ==
    LET r == ObjectManager_commit_pick(ledger, agent_id, obj_id)
    IN  /\ SetLedger(r.om)
        /\ om_ret' = [NoLedgerCall EXCEPT !.op = "commit_pick",
                        !.obj_id = obj_id, !.raised = r.raised,
                        !.value = r.value]
        /\ UNCHANGED notLedgerVars

\* om.commit_drop(agent_id=agent_id, cell=cell, item_type=item_type, qty=qty)
CommitDrop(agent_id, cell, item_type, qty) ==
    LET r == ObjectManager_commit_drop(ledger, agent_id, cell, item_type, qty)
    IN  /\ _id_counter <= MaxIds
        /\ SetLedger(r.om)
        /\ om_ret' = [NoLedgerCall EXCEPT !.op = "commit_drop",
                        !.cell = cell, !.item_type = item_type,
                        !.qty = qty, !.raised = r.raised,
                        !.value = r.value]
        /\ UNCHANGED notLedgerVars

\* om.set_world_blocked({cell})
SetWorldBlocked(cell) ==
    /\ SetLedger(set_world_blocked(ledger, {cell}))
    /\ om_ret' = [NoLedgerCall EXCEPT !.op = "set_world_blocked",
                    !.cell = cell]
    /\ UNCHANGED notLedgerVars

LedgerInit ==
    /\ _objects = ObjectManager_new._objects
    /\ obj_by_cell = ObjectManager_new.obj_by_cell
    /\ world_blocked = ObjectManager_new.world_blocked
    /\ _id_counter = ObjectManager_new._id_counter
    /\ om_ret = NoLedgerCall

\* om.add(make_item(item_type, cell)): what the loader does for every object
LedgerAdd(item_type, cell) ==
    LET r == ObjectManager_add(ledger, item_type, cell)
    IN  /\ _id_counter <= MaxIds
        /\ SetLedger(r.om)
        /\ om_ret' = [NoLedgerCall EXCEPT !.op = "add", !.cell = cell,
                        !.item_type = item_type, !.raised = r.raised]
        /\ UNCHANGED notLedgerVars

\* The ledger as the loader fills it and the commits and spawn use it.
LedgerNext ==
    \/ \E t \in ITEM_CLASSES, c \in LEDGER_CELLS : LedgerAdd(t, c)
    \/ \E t \in ITEM_TYPES, c \in LEDGER_CELLS : Spawn(t, c)
    \/ \E a \in AGENT_IDS, i \in 1 .. MaxIds : CommitPick(a, i)
    \/ \E a \in AGENT_IDS, c \in LEDGER_CELLS, t \in ITEM_TYPES, q \in 1 .. 2 :
          CommitDrop(a, c, t, q)

\* The ledger under spawn, commit_pick and commit_drop (and the blocked set
\* the scene hands over).
LedgerOpsNext ==
    \/ \E t \in ITEM_TYPES, c \in LEDGER_CELLS : Spawn(t, c)
    \/ \E a \in AGENT_IDS, i \in 1 .. MaxIds : CommitPick(a, i)
    \/ \E a \in AGENT_IDS, c \in LEDGER_CELLS, t \in ITEM_TYPES, q \in 0 .. 2 :
          CommitDrop(a, c, t, q)
    \/ \E c \in LEDGER_CELLS : SetWorldBlocked(c)

\* ---------------------------------------------- NPCAgent: pick and drop
\* The attributes NPCAgent.__init__ and update bind on self.
NPCAgent_attrs ==
    {"id", "grid_size", "_grid_spec_provider", "mover", "object_mgr",
     "area_mgr", "_current_area_name", "log_file", "log", "inventory",
     "known_recipes", "crafter", "_last_cell"}

\* What an agent action leaves: the inventory, the ledger, the exception it
\* raised (None when it returned) and the tuple it returned.
AgentResult(inv, om, raised, value) ==
    [items |-> inv, om |-> om, raised |-> raised, value |-> value]

\* _is_adjacent4_or_same with the distance limit 2.
_is_adjacent4_or_same_Wide(a, b) == Abs(a[1] - b[1]) + Abs(a[2] - b[2]) <= 2

\* _is_adjacent4_or_same
_is_adjacent4_or_same(a, b) == Abs(a[1] - b[1]) + Abs(a[2] - b[2]) <= 1

\* f"COMMIT_FAIL:{reason2}"
COMMIT_FAIL(reason2) == "COMMIT_FAIL:" \o reason2

\* An action is made of steps: a step either ends the action with a result
\* or goes on to the next step with what that step needs.
Ends(res) == [ended |-> TRUE, res |-> res]

Goes(carry) == [ended |-> FALSE, carry |-> carry]

\* pick_from_ground, validation (distance, can_pick): goes on with the obj_id
pick_validate(inv, om, here, cell, type_filter) ==
    IF ~_is_adjacent4_or_same(here, cell)
    THEN Ends(AgentResult(inv, om, None, <<FALSE, "TOO_FAR", None>>))
    ELSE LET c == ObjectManager_can_pick(om, cell, type_filter)
         IN  IF c.raised # None
             THEN Ends(AgentResult(inv, c.om, c.raised, <<>>))
             ELSE IF ~c.value[1] \/ c.value[3] = NoObjId
             THEN Ends(AgentResult(inv, c.om, None,
                                   <<FALSE, c.value[2], None>>))
             ELSE Goes(c.value[3])

\* pick_from_ground, the change of the own inventory (get_obj, the type,
\* inventory.add): goes on with the inventory and the item type
pick_change(inv, om, obj_id) ==
    LET g == ObjectManager_get_obj(om, obj_id)
    IN  IF g.raised # None THEN Ends(AgentResult(inv, g.om, g.raised, <<>>))
        ELSE IF g.value = <<>>
        THEN Ends(AgentResult(inv, g.om, None,
                              <<FALSE, "OBJ_INVALID", None>>))
        ELSE Goes([items |-> Inventory_add(inv,
                                [k \in {g.value[1].name} |-> 1]),
                   item_type |-> g.value[1].name])

\* pick_from_ground, the commit: the argument self.agent_id of commit_pick
\* is evaluated first.
pick_commit(inv, om, self_id, obj_id, item_type) ==
    IF "agent_id" \notin NPCAgent_attrs
    THEN AgentResult(inv, om, "AttributeError", <<>>)
    ELSE LET r == ObjectManager_commit_pick(om, self_id, obj_id)
         IN  IF r.raised # None THEN AgentResult(inv, r.om, r.raised, <<>>)
             ELSE IF ~r.value[1]
             THEN AgentResult(
                    Inventory_remove(inv, [k \in {item_type} |-> 1]).items,
                    r.om, None, <<FALSE, COMMIT_FAIL(r.value[2]), None>>)
             ELSE AgentResult(inv, r.om, None, <<TRUE, None, item_type>>)

\* pick_from_ground(cell, type_filter): the value is <<ok, reason, item_type>>
NPCAgent_pick_from_ground(inv, om, self_id, here, cell, type_filter) ==
    LET v == pick_validate(inv, om, here, cell, type_filter)
        ch == pick_change(inv, om, v.carry)
    IN  IF v.ended THEN v.res
        ELSE IF ch.ended THEN ch.res
        ELSE pick_commit(ch.carry.items, om, self_id, v.carry,
                         ch.carry.item_type)

\* drop_to_ground, validation (distance, qty, stock, can_drop)
drop_validate(inv, om, here, item_type, qty, cell) ==
    IF ~_is_adjacent4_or_same(here, cell)
    THEN Ends(AgentResult(inv, om, None, <<FALSE, "TOO_FAR", 0>>))
    ELSE IF qty <= 0
    THEN Ends(AgentResult(inv, om, None, <<FALSE, "INVALID_QTY", 0>>))
    ELSE IF Inventory_count(inv, item_type) < qty
    THEN Ends(AgentResult(inv, om, None, <<FALSE, "NO_STOCK", 0>>))
    ELSE IF ~can_drop(om, cell)[1]
    THEN Ends(AgentResult(inv, om, None, <<FALSE, can_drop(om, cell)[2], 0>>))
    ELSE Goes(TRUE)

\* drop_to_ground, the change of the own inventory (inventory.remove): goes
\* on with the inventory
drop_change(inv, om, item_type, qty) ==
    LET r == Inventory_remove(inv, [k \in {item_type} |-> qty])
    IN  IF ~r.ok
        THEN Ends(AgentResult(inv, om, None, <<FALSE, "INV_REMOVE_FAIL", 0>>))
        ELSE Goes(r.items)

\* drop_to_ground, the commit: the argument self.agent_id of commit_drop is
\* evaluated first.
drop_commit(inv, om, self_id, item_type, qty, cell) ==
    IF "agent_id" \notin NPCAgent_attrs
    THEN AgentResult(inv, om, "AttributeError", <<>>)
    ELSE LET r == ObjectManager_commit_drop(om, self_id, cell, item_type, qty)
         IN  IF r.raised # None THEN AgentResult(inv, r.om, r.raised, <<>>)
             ELSE IF ~r.value[1]
             THEN AgentResult(Inventory_add(inv, [k \in {item_type} |-> qty]),
                              r.om, None,
                              <<FALSE, COMMIT_FAIL(r.value[2]), 0>>)
             ELSE AgentResult(inv, r.om, None,
                              <<TRUE, None, Len(r.value[3])>>)

\* drop_to_ground(item_type, qty, cell): the value is <<ok, reason, created>>
NPCAgent_drop_to_ground(inv, om, self_id, here, item_type, qty, cell) ==
    LET v == drop_validate(inv, om, here, item_type, qty, cell)
        ch == drop_change(inv, om, item_type, qty)
    IN  IF v.ended THEN v.res
        ELSE IF ch.ended THEN ch.res
        ELSE drop_commit(ch.carry, om, self_id, item_type, qty, cell)

\* ------------------------------------------------- calls (NPCAgent items)
NPCS == {"npc1", "npc2"}

\* The agent whose actions the one-agent specification follows.
SOLO == {"npc1"}

\* initial_cell of each agent
INITIAL_CELL == [a \in NPCS |-> IF a = "npc1" THEN <<0, 0>> ELSE <<2, 0>>]

\* NPCAgent.current_cell of agent a
AgentCell(a) == to_cell(ag_pos[a], grid_size)

\* items0 is the inventory the action started from; raced tells that the
\* other agent was past the validation of the same action on the same cell
\* while this one was.
NoAgentCall ==
    [op |-> "init", cell |-> <<>>, item_type |-> None, qty |-> 0,
     type_filter |-> None, raised |-> None, value |-> <<>>,
     items0 |-> <<>>, raced |-> FALSE]

\* The agent between two actions; inside one, at is the step that comes
\* next ("change": the own inventory, "commit": the ledger).
AtRest ==
    [at |-> "idle", op |-> "none", cell |-> <<>>, item_type |-> None,
     qty |-> 0, obj_id |-> NoObjId, items0 |-> <<>>, raced |-> FALSE]

SetAgent(a, r) ==
    /\ ag_items' = [ag_items EXCEPT ![a] = r.items]
    /\ SetLedger(r.om)

AgentsInit ==
    /\ ag_pos = [a \in NPCS |-> to_world(INITIAL_CELL[a], grid_size)]
    /\ ag_items = [a \in NPCS |-> <<>>]
    /\ ag_pc = [a \in NPCS |-> AtRest]
    /\ ag_ret = [a \in NPCS |-> NoAgentCall]

\* agent.spawn_at(cell): mover.set_cell_position(cell)
AgentSpawnAt(a, cell) ==
    /\ ag_pc[a] = AtRest
    /\ ag_pos' = [ag_pos EXCEPT ![a] = to_world(cell, grid_size)]
    /\ ag_ret' = [ag_ret EXCEPT ![a] =
                    [NoAgentCall EXCEPT !.op = "spawn_at", !.cell = cell]]
    /\ UNCHANGED <<ag_items, ag_pc, ledgerVars>>
    /\ UNCHANGED notAgentsVars

\* agent.inventory.add({item: 1}): the agent gathers one unit
AgentGather(a, item) ==
    /\ ag_pc[a] = AtRest
    /\ Inventory_count(ag_items[a], item) < MaxHeld
    /\ ag_items' = [ag_items EXCEPT ![a] =
                      Inventory_add(@, [k \in {item} |-> 1])]
    /\ ag_ret' = [ag_ret EXCEPT ![a] =
                    [NoAgentCall EXCEPT !.op = "gather", !.item_type = item]]
    /\ UNCHANGED <<ag_pos, ag_pc, ledgerVars>>
    /\ UNCHANGED notAgentsVars

\* agent.pick_from_ground(cell, type_filter)
AgentPick(a, cell, type_filter) ==
    LET r == NPCAgent_pick_from_ground(ag_items[a], ledger, a, AgentCell(a),
                                       cell, type_filter)
    IN  /\ ag_pc[a] = AtRest
        /\ SetAgent(a, r)
        /\ ag_ret' = [ag_ret EXCEPT ![a] =
                        [NoAgentCall EXCEPT !.op = "pick", !.cell = cell,
                           !.type_filter = type_filter,
                           !.items0 = ag_items[a],
                           !.raised = r.raised, !.value = r.value]]
        /\ UNCHANGED <<ag_pos, ag_pc>>
        /\ UNCHANGED notAgentsVars

\* agent.drop_to_ground(item_type, qty, cell)
AgentDrop(a, item_type, qty, cell) ==
    LET r == NPCAgent_drop_to_ground(ag_items[a], ledger, a, AgentCell(a),
                                     item_type, qty, cell)
    IN  /\ ag_pc[a] = AtRest
        /\ SetAgent(a, r)
        /\ ag_ret' = [ag_ret EXCEPT ![a] =
                        [NoAgentCall EXCEPT !.op = "drop", !.cell = cell,
                           !.item_type = item_type, !.qty = qty,
                           !.items0 = ag_items[a],
                           !.raised = r.raised, !.value = r.value]]
        /\ UNCHANGED <<ag_pos, ag_pc>>
        /\ UNCHANGED notAgentsVars

\* The loader places one more object while no agent is inside an action.
ScenePlace(item_type, cell) ==
    /\ _id_counter <= MaxGround
    /\ \A a \in NPCS : ag_pc[a] = AtRest
    /\ LedgerAdd(item_type, cell)

\* What the agents gather, what they name in a drop and in a pick filter.
HELD == {"wheat"}

DROPPED == {"wheat", "gem"}

FILTERS == {None, "wheat"}

\* The frames after agent a passed the validation of op on cell: a's new
\* frame, and the mark on both when another agent is past it too.
Entered(a, op, cell, item_type, qty, obj_id) ==
    LET rivals == {b \in NPCS \ {a} : /\ ag_pc[b].at # "idle"
                                       /\ ag_pc[b].op = op
                                       /\ ag_pc[b].cell = cell}
    IN  [b \in NPCS |->
            IF b = a
            THEN [at |-> "change", op |-> op, cell |-> cell,
                  item_type |-> item_type, qty |-> qty, obj_id |-> obj_id,
                  items0 |-> ag_items[a], raced |-> rivals # {}]
            ELSE IF b \in rivals THEN [ag_pc[b] EXCEPT !.raced = TRUE]
            ELSE ag_pc[b]]

\* The action of agent a ends with result r.
Finished(a, op, cell, item_type, qty, items0, raced, r) ==
    /\ SetAgent(a, r)
    /\ ag_pc' = [ag_pc EXCEPT ![a] = AtRest]
    /\ ag_ret' = [ag_ret EXCEPT ![a] =
                    [NoAgentCall EXCEPT !.op = op, !.cell = cell,
                       !.item_type = item_type, !.qty = qty,
                       !.items0 = items0, !.raced = raced,
                       !.raised = r.raised, !.value = r.value]]

\* agent.pick_from_ground(cell), first step: the validation
AgentBeginPick(a, cell) ==
    LET v == pick_validate(ag_items[a], ledger, AgentCell(a), cell, None)
    IN  /\ ag_pc[a] = AtRest
        /\ IF v.ended
           THEN Finished(a, "pick", cell, None, 0, ag_items[a], FALSE, v.res)
           ELSE /\ ag_pc' = Entered(a, "pick", cell, None, 0, v.carry)
                /\ UNCHANGED <<ag_items, ag_ret, ledgerVars>>
        /\ UNCHANGED ag_pos
        /\ UNCHANGED notAgentsVars

\* agent.drop_to_ground(item_type, qty, cell), first step: the validation
AgentBeginDrop(a, item_type, qty, cell) ==
    LET v == drop_validate(ag_items[a], ledger, AgentCell(a), item_type, qty,
                           cell)
    IN  /\ ag_pc[a] = AtRest
        /\ IF v.ended
           THEN Finished(a, "drop", cell, item_type, qty, ag_items[a], FALSE,
                         v.res)
           ELSE /\ ag_pc' = Entered(a, "drop", cell, item_type, qty, NoObjId)
                /\ UNCHANGED <<ag_items, ag_ret, ledgerVars>>
        /\ UNCHANGED ag_pos
        /\ UNCHANGED notAgentsVars

\* What the step frame.at of the action in frame does.
agent_step(frame, inv, om, self_id) ==
    IF frame.op = "pick"
    THEN IF frame.at = "change" THEN pick_change(inv, om, frame.obj_id)
         ELSE Ends(pick_commit(inv, om, self_id, frame.obj_id,
                               frame.item_type))
    ELSE IF frame.at = "change"
         THEN drop_change(inv, om, frame.item_type, frame.qty)
         ELSE Ends(drop_commit(inv, om, self_id, frame.item_type, frame.qty,
                               frame.cell))

\* The frame and the inventory after a change step that goes on.
changed(frame, carry) ==
    IF frame.op = "pick"
    THEN [frame |-> [frame EXCEPT !.at = "commit",
                                  !.item_type = carry.item_type],
          items |-> carry.items]
    ELSE [frame |-> [frame EXCEPT !.at = "commit"], items |-> carry]

\* The next step of the action agent a is inside.
AgentStep(a) ==
    LET f == ag_pc[a]
        s == agent_step(f, ag_items[a], ledger, a)
    IN  /\ f.at # "idle"
        /\ IF s.ended
           THEN Finished(a, f.op, f.cell, f.item_type, f.qty, f.items0,
                         f.raced, s.res)
           ELSE /\ ag_pc' = [ag_pc EXCEPT ![a] = changed(f, s.carry).frame]
                /\ ag_items' = [ag_items EXCEPT ![a] =
                                  changed(f, s.carry).items]
                /\ UNCHANGED <<ag_ret, ledgerVars>>
        /\ UNCHANGED ag_pos
        /\ UNCHANGED notAgentsVars

\* Two agents next to the same cell, their actions interleaved step by step.
AgentRaceNext ==
    \/ \E t \in HELD, c \in LEDGER_CELLS : ScenePlace(t, c)
    \/ \E a \in NPCS, i \in HELD : AgentGather(a, i)
    \/ \E a \in NPCS, c \in LEDGER_CELLS : AgentBeginPick(a, c)
    \/ \E a \in NPCS, t \in HELD, c \in LEDGER_CELLS :
          AgentBeginDrop(a, t, 1, c)
    \/ \E a \in NPCS : AgentStep(a)

\* One agent among the ground objects the loader placed.
AgentItemsNext ==
    \/ \E t \in HELD, c \in LEDGER_CELLS : ScenePlace(t, c)
    \/ \E a \in SOLO, c \in LEDGER_CELLS : AgentSpawnAt(a, c)
    \/ \E a \in SOLO, i \in HELD : AgentGather(a, i)
    \/ \E a \in SOLO, c \in LEDGER_CELLS, f \in FILTERS : AgentPick(a, c, f)
    \/ \E a \in SOLO, t \in DROPPED, q \in 0 .. MaxDrop, c \in LEDGER_CELLS :
          AgentDrop(a, t, q, c)

\* ------------------------------------ NPCAgent: movement, area, crafting
\* In the agent's specification one unit of dt is one tick of the mover; a
\* recipe's time_per_unit counts the same ticks.

\* set_current_area_name: type(a).__name__ of the area at cell, or None
set_current_area_name(am, cell) ==
    IF area_at(am, cell) # <<>> THEN area_at(am, cell)[1].cls ELSE None

\* update with crafter.update ahead of the movement and the area refresh.
NPCAgent_update_CraftFirst(m, task, inv, area, am, dt) ==
    LET prev_cell == to_cell(m._pos_world, grid_size)
        m2 == GridMover_update(m, dt)
        new_cell == to_cell(m2._pos_world, grid_size)
        c == Crafter_update(task, inv, area, dt)
    IN  [mover |-> m2,
         area |-> IF prev_cell # new_cell
                  THEN set_current_area_name(am, new_cell) ELSE area,
         task |-> c.task, items |-> c.items]

\* NPCAgent.update(dt): the mover moves, the area name is refreshed when the
\* cell changed, then the crafter is updated.
NPCAgent_update(m, task, inv, area, am, dt) ==
    LET prev_cell == to_cell(m._pos_world, grid_size)
        m2 == GridMover_update(m, dt)
        new_cell == to_cell(m2._pos_world, grid_size)
        area2 == IF prev_cell # new_cell
                 THEN set_current_area_name(am, new_cell) ELSE area
        c == Crafter_update(task, inv, area2, dt)
    IN  [mover |-> m2, area |-> area2, task |-> c.task, items |-> c.items]

\* A move_to_cell that keeps the mover's path when there is no route.
NPCAgent_move_to_cell_KeepPath(m, cell, grid) ==
    LET start == to_cell(m._pos_world, grid_size)
        p == astar(start, cell, grid)
    IN  IF p = <<>> THEN [mover |-> m, value |-> FALSE]
        ELSE [mover |-> set_path(m, p), value |-> TRUE]

\* NPCAgent.move_to_cell(cell): [mover, value]
NPCAgent_move_to_cell(m, cell, grid) ==
    LET start == to_cell(m._pos_world, grid_size)
        p == astar(start, cell, grid)
    IN  IF p = <<>> THEN [mover |-> set_path(m, <<>>), value |-> FALSE]
        ELSE [mover |-> set_path(m, p), value |-> TRUE]

\* --------------------------------------------------- calls (NPCAgent)
\* What the grid_spec_provider of the agent returns: an open grid.
NPC_GRID == [width_cells |-> GridW, height_cells |-> GridH, blocked |-> {}]

\* The cells the agent is sent to and placed on: a row across the areas.
NPC_CELLS == {<<0, 1>>, <<1, 1>>, <<2, 1>>}

\* The areas of the agent's world.
NPC_AREAS == {a \in AREAS : a.id \in {"A", "B"}}

\* The scene adds an area to the agent's world.
SceneArea(area) ==
    /\ Len(am_order) < MaxAreas
    /\ AreaAdd(area)

\* agent.inventory.add({"wheat": 2}), while the agent lacks the inputs of a
\* bread
NpcGather ==
    /\ ~Inventory_has(items, RECIPES["bread"].inputs)
    /\ InvAdd(RECIPES["bread"].inputs)

\* agent.crafter.start("bread", 1)
NpcStart ==
    /\ Inventory_count(items, "bread") < MaxBaked
    /\ Start("bread", 1)

\* agent.move_to_cell(cell) when the grid_spec_provider returns grid; the
\* observation keeps the goal, the grid, the returned value and whether the
\* mover was idle before the call.
MoveToCell(cell, grid) ==
    LET r == NPCAgent_move_to_cell(mover, cell, grid)
    IN  /\ path' = r.mover.path
        /\ _current_index' = r.mover._current_index
        /\ _pos_world' = r.mover._pos_world
        /\ mv_ret' = [op |-> "move_to_cell", dt |-> 0, arg |-> cell,
                      grid |-> grid, value |-> r.value,
                      idle0 |-> is_idle(mover)]
        /\ UNCHANGED <<mv_elapsed, mv_long>>
        /\ UNCHANGED notMoverVars

\* agent.move_to_cell(cell)
NpcMoveToCell(cell) == MoveToCell(cell, NPC_GRID)

\* agent.update(dt)
NpcUpdate(dt) ==
    LET r == NPCAgent_update(mover, _task, items, _current_area_name,
                             manager, dt)
    IN  /\ InBound(r.items)
        /\ path' = r.mover.path
        /\ _current_index' = r.mover._current_index
        /\ _pos_world' = r.mover._pos_world
        /\ mv_ret' = [op |-> "update", dt |-> dt]
        /\ UNCHANGED <<mv_elapsed, mv_long>>
        /\ _current_area_name' = r.area
        /\ _task' = r.task
        /\ items' = r.items
        /\ ret' = [NoCall EXCEPT !.op = "npc_update", !.dt = dt,
                                 !.task0 = _task,
                                 !.cell0 = to_cell(_pos_world, grid_size)]
        /\ UNCHANGED <<pathVars, areaVars, ledgerVars, agentsVars>>

\* One agent in a world of areas: it is placed, sent to cells, gathers
\* wheat, starts bread and is updated by the game loop.
NpcNext ==
    \/ \E a \in NPC_AREAS : SceneArea(a)
    \/ \E c \in NPC_CELLS : SetCellPosition(c)
    \/ \E c \in NPC_CELLS : NpcMoveToCell(c)
    \/ NpcGather
    \/ NpcStart
    \/ \E dt \in 1 .. MaxTick : NpcUpdate(dt)

PathNext == FindPath

InitCraft ==
    CraftInit /\ PathIdle /\ MoverInit /\ AreaInit /\ LedgerInit /\ AgentsInit

InitPath ==
    PathInit /\ CraftInit /\ MoverInit /\ AreaInit /\ LedgerInit /\ AgentsInit

SpecCraft == InitCraft /\ [][CraftNext]_vars

SpecInv == InitCraft /\ [][InvNext]_vars

SpecPath == InitPath /\ [][PathNext]_vars

SpecMoverRun == InitCraft /\ [][MoverRunNext]_vars

SpecMover == InitCraft /\ [][MoverNext]_vars

SpecAreas == InitCraft /\ [][AreaNext]_vars

\* An AreaManager and a caller that changes the sets it is handed.
AreaCallerNext ==
    \/ AreaNext
    \/ \E c \in CALLER_CELLS : CallerChanges(c)

SpecAreaCaller == InitCraft /\ [][AreaCallerNext]_vars

\* om.can_pick(cell=cell, type_filter=type_filter)
CanPick(cell, type_filter) ==
    LET r == ObjectManager_can_pick(ledger, cell, type_filter)
    IN  /\ SetLedger(r.om)
        /\ om_ret' = [NoLedgerCall EXCEPT !.op = "can_pick", !.cell = cell,
                        !.type_filter = type_filter, !.raised = r.raised,
                        !.value = r.value]
        /\ UNCHANGED notLedgerVars

\* om.can_drop(cell=cell)
CanDrop(cell) ==
    /\ om_ret' = [NoLedgerCall EXCEPT !.op = "can_drop", !.cell = cell,
                    !.value = can_drop(ledger, cell)]
    /\ UNCHANGED <<_objects, obj_by_cell, world_blocked, _id_counter>>
    /\ UNCHANGED notLedgerVars

\* The ledger of a scene: filled by the loader, blocked cells handed over,
\* then validated against and committed to.
LedgerSceneNext ==
    \/ \E t \in ITEM_CLASSES, c \in LEDGER_CELLS : LedgerAdd(t, c)
    \/ \E c \in LEDGER_CELLS : SetWorldBlocked(c)
    \/ \E c \in LEDGER_CELLS, f \in FILTERS : CanPick(c, f)
    \/ \E c \in LEDGER_CELLS : CanDrop(c)
    \/ \E a \in AGENT_IDS, i \in 1 .. MaxIds : CommitPick(a, i)
    \/ \E a \in AGENT_IDS, c \in LEDGER_CELLS, t \in ITEM_TYPES, q \in 1 .. 2 :
          CommitDrop(a, c, t, q)

SpecLedgerScene == InitCraft /\ [][LedgerSceneNext]_vars

SpecLedgerOps == InitCraft /\ [][LedgerOpsNext]_vars

SpecLedger == InitCraft /\ [][LedgerNext]_vars

SpecAgentItems == InitCraft /\ [][AgentItemsNext]_vars

SpecAgentRace == InitCraft /\ [][AgentRaceNext]_vars

SpecNpc == InitCraft /\ [][NpcNext]_vars

\* ------------------------------------------------ claims: Crafter, Inventory
\* The station named by the recipe of an Active task.
TaskStation(task) == RECIPES[task[1].recipe].station

\* The count of item x an output dict adds per produced unit.
OutputOf(r, x) ==
    IF x \in DOMAIN r.outputs /\ r.outputs[x] > 0 THEN r.outputs[x] ELSE 0

\* The count of item x a dict of requirements asks for.
Asked(req, x) == IF x \in DOMAIN req THEN req[x] ELSE 0

\* C2: Crafter.start called while a task is Active returns failure
\* ALREADY_BUSY and leaves the task (recipe, qty_total, qty_remaining,
\* time_left_unit) and the inventory unchanged, whatever recipe name and
\* quantity are passed.
C2_BusyStartRejected ==
    [][ (_task # NoTask /\ ret'.op = "start")
        => /\ ~ret'.ok
           /\ ret'.err = "ALREADY_BUSY"
           /\ _task' = _task
           /\ items' = items ]_vars

C2_Witness ==
    /\ ret.op = "start"
    /\ ret.err = "ALREADY_BUSY"
    /\ _task # NoTask
    /\ ret.recipe # _task[1].recipe

\* C3: a successful Crafter.start(recipe, qty) removes exactly inputs[i] * qty
\* of every input item from the inventory and makes the task Active with
\* qty_remaining = qty; a start whose inputs * qty the inventory does not hold
\* fails, changes no item count and no task, and, made by an Idle crafter that
\* passes the earlier checks, reports MISSING_INPUTS and stays Idle.
C3_StartConsumesAllOrNothing ==
    [][ (ret'.op = "start" /\ ret'.qty > 0
         /\ ret'.recipe \in DOMAIN RECIPES)
        => LET r == RECIPES[ret'.recipe]
               q == ret'.qty
               enough == \A k \in DOMAIN r.inputs :
                            Inventory_count(items, k) >= r.inputs[k] * q
               reached == /\ _task = NoTask
                          /\ ret'.recipe \in known_recipes
                          /\ (r.station = None
                              \/ _current_area_name = r.station)
           IN  /\ ret'.ok =>
                    /\ \A x \in ITEMS :
                          Inventory_count(items', x)
                            = Inventory_count(items, x)
                              - Asked(r.inputs, x) * q
                    /\ _task' # NoTask
                    /\ _task'[1].recipe = ret'.recipe
                    /\ _task'[1].qty_total = q
                    /\ _task'[1].qty_remaining = q
               /\ ~enough =>
                    /\ ~ret'.ok
                    /\ items' = items
                    /\ _task' = _task
               /\ (~enough /\ reached) =>
                    /\ ret'.err = "MISSING_INPUTS"
                    /\ _task' = NoTask
               /\ (enough /\ reached) => ret'.ok ]_vars

\* inputs {wheat: 2}, qty 3: the start succeeded and took all six wheat.
C3_Witness ==
    /\ ret.op = "start"
    /\ ret.ok
    /\ ret.recipe = "bread"
    /\ ret.qty = 3
    /\ Inventory_count(items, "wheat") = 0
    /\ _task # NoTask
    /\ _task[1].qty_remaining = 3

\* C4: Inventory.remove(req) is all-or-nothing: if the held count of any
\* requested item is smaller than the requested quantity it returns False and
\* the inventory is unchanged; otherwise it returns True and every item's
\* count drops by exactly its requested quantity.
C4_RemoveAllOrNothing ==
    [][ ret'.op = "remove"
        => LET req == ret'.req
           IN  IF \E k \in DOMAIN req : Inventory_count(items, k) < req[k]
               THEN ~ret'.ok /\ items' = items
               ELSE /\ ret'.ok
                    /\ \A x \in ITEMS :
                          Inventory_count(items', x)
                            = Inventory_count(items, x) - Asked(req, x) ]_vars

\* A refused request one of whose items was individually sufficient.
C4_Witness ==
    /\ ret.op = "remove"
    /\ ~ret.ok
    /\ \E k \in DOMAIN ret.req :
          ret.req[k] > 0 /\ Inventory_count(items, k) >= ret.req[k]

\* C8: when the owner's current area name differs from the station required
\* by the Active task's recipe, Crafter.update(dt) makes the crafter Idle and
\* leaves the inventory as it is (no output, no refund), whatever dt is and
\* however many updates went before.
C8_StationViolationCancels ==
    [][ (ret'.op = "update" /\ _task # NoTask
         /\ TaskStation(_task) # None
         /\ _current_area_name # TaskStation(_task))
        => (_task' = NoTask /\ items' = items) ]_vars

\* A task that had already been updated inside its station is cancelled by
\* an update whose dt covers the time left on the current unit.
C8_Witness ==
    /\ ret.op = "update"
    /\ ret.task0 # NoTask
    /\ TaskStation(ret.task0) # None
    /\ _current_area_name # TaskStation(ret.task0)
    /\ ret.task0[1].time_left_unit < RECIPES[ret.task0[1].recipe].time_per_unit
    /\ ret.dt >= ret.task0[1].time_left_unit
    /\ _task = NoTask

\* The number of units Crafter.update(dt) is to complete: the largest
\* k <= n with L + (k - 1) * T <= dt.
UnitsDue(n, L, T, dt) ==
    LET K == {k \in 0 .. n : L + (k - 1) * T <= dt}
    IN  CHOOSE k \in K : \A j \in K : j <= k

\* C9: for an Active task whose station check passes, with unit time T > 0,
\* time L left on the current unit and n units remaining, Crafter.update(dt)
\* completes exactly k = UnitsDue units and adds the recipe outputs k times;
\* if k < n the task stays Active with qty_remaining = n - k and the
\* unconsumed part of dt taken off the current unit's timer.
C9_UpdateCompletesDueUnits ==
    [][ (ret'.op = "update" /\ _task # NoTask
         /\ (TaskStation(_task) = None
             \/ _current_area_name = TaskStation(_task)))
        => LET t == _task[1]
               r == RECIPES[t.recipe]
               T == r.time_per_unit
               L == t.time_left_unit
               n == t.qty_remaining
               dt == ret'.dt
               k == UnitsDue(n, L, T, dt)
           IN  /\ \A x \in ITEMS :
                     Inventory_count(items', x)
                       = Inventory_count(items, x) + k * OutputOf(r, x)
               /\ IF k < n
                  THEN _task' =
                         << [t EXCEPT
                               !.qty_remaining = n - k,
                               !.time_left_unit =
                                  IF k = 0 THEN L - dt
                                  ELSE T - (dt - (L + (k - 1) * T))] >>
                  ELSE _task' = NoTask ]_vars

\* T = 2, qty = 3, update(5): two units produced, one remaining, 1 s left.
C9_Witness ==
    /\ ret.op = "update"
    /\ ret.dt = 5
    /\ ret.task0 = << [recipe |-> "bread", qty_total |-> 3,
                       qty_remaining |-> 3, time_left_unit |-> 2] >>
    /\ _task = << [recipe |-> "bread", qty_total |-> 3,
                   qty_remaining |-> 1, time_left_unit |-> 1] >>
    /\ Inventory_count(items, "bread") = 2

\* ------------------------------------------------------ claims: pathfinding
\* Whether the cell is inside the grid and not blocked.
FreeCell(cell, grid) ==
    /\ in_bounds(cell, grid.width_cells, grid.height_cells)
    /\ cell \notin grid.blocked

RECURSIVE bfs(_, _, _, _, _)
\* Breadth-first search by layers: the number of steps of a shortest
\* 4-connected route of free cells to goal, or -1 when there is none.
bfs(frontier, seen, d, goal, grid) ==
    IF goal \in frontier THEN d
    ELSE IF frontier = {} THEN -1
    ELSE LET next == {n \in GRID_CELLS :
                        /\ FreeCell(n, grid)
                        /\ n \notin seen
                        /\ \E c \in frontier : manhattan(c, n) = 1}
         IN  bfs(next, seen \cup next, d + 1, goal, grid)

ShortestSteps(start, goal, grid) == bfs({start}, {start}, 0, goal, grid)

\* C5: for in-bounds, unblocked start and goal joined by a 4-connected route
\* of unblocked cells, astar returns a path whose number of steps is that of
\* a shortest route (breadth-first search); on a grid without blocked cells
\* it is the Manhattan distance.
C5_AstarShortest ==
    (/\ pf_done
     /\ FreeCell(pf_start, pf_grid)
     /\ FreeCell(pf_goal, pf_grid)
     /\ ShortestSteps(pf_start, pf_goal, pf_grid) >= 0)
    => /\ Len(pf_path) - 1 = ShortestSteps(pf_start, pf_goal, pf_grid)
       /\ pf_grid.blocked = {}
            => Len(pf_path) - 1 = manhattan(pf_start, pf_goal)

\* A query whose shortest route has to go around blocked cells.
C5_Witness ==
    /\ pf_done
    /\ FreeCell(pf_start, pf_grid)
    /\ FreeCell(pf_goal, pf_grid)
    /\ ShortestSteps(pf_start, pf_goal, pf_grid) > manhattan(pf_start, pf_goal)
    /\ Len(pf_path) - 1 = ShortestSteps(pf_start, pf_goal, pf_grid)

\* C6: if start or goal is a blocked cell or lies out of bounds, astar
\* returns the empty sequence.
C6_BlockedOrOutsideGivesEmpty ==
    (/\ pf_done
     /\ (~FreeCell(pf_start, pf_grid) \/ ~FreeCell(pf_goal, pf_grid)))
    => pf_path = <<>>

\* -------------------------------------------------------- claims: GridMover
\* Consecutive cells are one orthogonal step apart.
FourConnected(p) ==
    \A i \in 1 .. Len(p) - 1 : manhattan(p[i], p[i + 1]) = 1

\* The mover is idle and stands exactly on the centre of the last path cell.
IdleAtGoal ==
    /\ is_idle(mover)
    /\ _pos_world = to_world(path[Len(path)], grid_size)

\* C7 (as stated): for a non-empty 4-connected path given to set_path, once
\* the dt of the updates sum to at least (number of cells) / speed, the mover
\* is idle and its position is exactly the centre of the last path cell.
C7_IdleAfterPathTime ==
    (/\ path # <<>>
     /\ FourConnected(path)
     /\ mv_elapsed >= Len(path) * CellTime)
    => IdleAtGoal

\* C7 (amended): for a non-empty 4-connected path given to set_path and
\* updates whose dt are each at most 1 / speed (one cell's traversal), once
\* the dt sum to at least 2 * (number of cells - 1) / speed, the mover is
\* idle and its position is exactly the centre of the last path cell.
C7_IdleAfterTwiceSegmentTime ==
    (/\ path # <<>>
     /\ FourConnected(path)
     /\ ~mv_long
     /\ mv_elapsed >= 2 * (Len(path) - 1) * CellTime)
    => IdleAtGoal

\* A path of three or more cells with a turn, walked to its goal by updates
\* of at most one cell's time each.
C7_Witness ==
    /\ mv_ret.op = "update"
    /\ mv_ret.dt > 0
    /\ Len(path) >= 3
    /\ FourConnected(path)
    /\ path[1][1] # path[3][1]
    /\ path[1][2] # path[3][2]
    /\ ~mv_long
    /\ mv_elapsed >= 2 * (Len(path) - 1) * CellTime
    /\ IdleAtGoal

\* ------------------------------------------------------ claims: AreaManager
\* Whether one of the area's rects contains the cell, right and top excluded.
Covers(area, cell) ==
    \E i \in DOMAIN area.rects :
        LET r == area.rects[i]
        IN  /\ r[1] <= cell[1] /\ cell[1] < r[3]
            /\ r[2] <= cell[2] /\ cell[2] < r[4]

\* The ids of the areas that contain the cell, in the order of insertion.
ContainingIds(cell) ==
    SelectSeq(am_order, LAMBDA i : Covers(area_of(_areas, i), cell))

\* C10: for every cell that two or more areas contain, area_at returns the
\* containing area inserted last and areas_for_cell returns the ids of the
\* containing areas in insertion order; an area removed and added again
\* counts as inserted at its latest add.
C10_LastInsertedWins ==
    \A cell \in AREA_CELLS :
        LET ids == ContainingIds(cell)
        IN  Len(ids) >= 2
            => /\ area_at(manager, cell) = <<area_of(_areas, ids[Len(ids)])>>
               /\ areas_for_cell(manager, cell) = ids

C15_CancelKeepsInventory ==
    [][ ret'.op = "cancel" => (_task' = NoTask /\ items' = items) ]_vars

\* A cancelled task that had produced one of its units: the bread is held
\* and the wheat of the units never made is gone.
C15_Witness ==
    /\ ret.op = "cancel"
    /\ ret.task0 # NoTask
    /\ ret.task0[1].recipe = "bread"
    /\ ret.task0[1].qty_total = 2
    /\ ret.task0[1].qty_remaining = 1
    /\ _task = NoTask
    /\ Inventory_count(items, "bread") = 1
    /\ Inventory_count(items, "wheat") = 0

\* C20: from an empty Inventory, after any add (non-positive deltas ignored)
\* and remove calls, every stored entry has a count of at least 1, and
\* count(item) = 0 exactly when the item has no entry.
C20_StoredCountsPositive ==
    /\ \A k \in DOMAIN items : items[k] >= 1
    /\ \A x \in ITEMS : (Inventory_count(items, x) = 0) <=> (x \notin DOMAIN items)

\* A remove that took the last unit of an item: its entry is gone.
C20_Witness ==
    /\ ret.op = "remove"
    /\ ret.ok
    /\ \E k \in DOMAIN ret.req : ret.req[k] > 0 /\ k \notin DOMAIN items
    /\ items # <<>>

\* C18: AreaManager.add of an area whose id is already present raises and
\* leaves the areas, the cell-to-area index and the cached perimeter set as
\* they were.
C18_DuplicateAddRejected ==
    [][ (am_ret'.op = "add" /\ am_ret'.id \in area_ids(_areas))
        => /\ am_ret'.raised # None
           /\ _areas' = _areas
           /\ _cell_to_areas' = _cell_to_areas
           /\ _perimeter_cache' = _perimeter_cache ]_vars

\* A rejected add while a perimeter set was cached and two areas were held.
C18_Witness ==
    /\ am_ret.op = "add"
    /\ am_ret.raised = "AssertionError"
    /\ _perimeter_cache # <<>>
    /\ Len(_areas) >= 2

\* ---------------------------------------------------------- claims: spawn
\* C19: ObjectManager.spawn of a known item type onto a cell that holds a
\* ground object raises and leaves the registry and the occupancy map as
\* they were; onto a free cell it raises nothing, registers exactly one new
\* ground object at that cell and returns its id.
C19_SpawnRaisesOrRegisters ==
    [][ (om_ret'.op = "spawn" /\ om_ret'.item_type \in ITEM_CLASSES)
        => LET cell == om_ret'.cell
           IN  IF cell \in DOMAIN obj_by_cell
               THEN /\ om_ret'.raised # None
                    /\ _objects' = _objects
                    /\ obj_by_cell' = obj_by_cell
               ELSE /\ om_ret'.raised = None
                    /\ \E id \in DOMAIN _objects' \ DOMAIN _objects :
                          /\ _objects' = dict_set(_objects, id,
                                            new_object(om_ret'.item_type,
                                                       cell))
                          /\ obj_by_cell' = dict_set(obj_by_cell, cell, id)
                          /\ om_ret'.value = id ]_vars

\* ------------------------------------------------ claims: NPCAgent items
\* What an agent action must leave alone when it fails.
AgentUntouched(a) == ag_items'[a] = ag_items[a] /\ ledger' = ledger

\* C12: pick_from_ground(cell) and drop_to_ground(item, qty, cell) go past
\* the distance test only when the Manhattan distance between the agent's
\* current cell and the target cell is at most 1; from farther away they
\* return TOO_FAR and change neither the inventory nor the ledger, whatever
\* the cell holds and whatever the agent holds.
C12_TooFarChangesNothing ==
    [][ \A a \in NPCS :
          LET r == ag_ret'[a]
              far == manhattan(AgentCell(a), r.cell) > 1
              too_far == /\ r.raised = None
                         /\ r.value[1] = FALSE
                         /\ r.value[2] = "TOO_FAR"
          IN  ( \/ r.op = "pick" /\ AgentPick(a, r.cell, r.type_filter)
                \/ r.op = "drop" /\ AgentDrop(a, r.item_type, r.qty, r.cell) )
              => IF far THEN too_far /\ AgentUntouched(a) ELSE ~too_far
      ]_vars

\* A drop of held stock onto a cell two cells away was answered TOO_FAR.
C12_Witness ==
    \E a \in NPCS :
        /\ ag_ret[a].op = "drop"
        /\ ag_ret[a].qty >= 1
        /\ Inventory_count(ag_items[a], ag_ret[a].item_type) >= ag_ret[a].qty
        /\ manhattan(AgentCell(a), ag_ret[a].cell) > 1
        /\ ag_ret[a].raised = None
        /\ ag_ret[a].value[2] = "TOO_FAR"

\* C17: drop_to_ground with qty >= 2 of an item the agent holds at least qty
\* of, onto a free cell at distance at most 1, fails with a returned result,
\* creates no ground object and leaves the inventory exactly as it was
\* (commit_drop answers QTY_GT1_SINGLE_CELL for every qty other than 1).
C17_LargeDropRollsBack ==
    [][ \A a \in NPCS, t \in DROPPED, q \in 2 .. MaxDrop, c \in LEDGER_CELLS :
          ( /\ AgentDrop(a, t, q, c)
            /\ Inventory_count(ag_items[a], t) >= q
            /\ manhattan(AgentCell(a), c) <= 1
            /\ can_drop(ledger, c)[1] )
          => /\ ag_ret'[a].raised = None
             /\ ag_ret'[a].value[1] = FALSE
             /\ _objects' = _objects
             /\ obj_by_cell' = obj_by_cell
             /\ ag_items'[a] = ag_items[a]
      ]_vars

\* C16: pick_from_ground and drop_to_ground return a result tuple for every
\* argument combination and never raise; when the result is a failure the
\* inventory and the ledger are unchanged.
C16_ActionsReturnTypedErrors ==
    [][ \A a \in NPCS, c \in LEDGER_CELLS :
          ( \/ \E f \in FILTERS : AgentPick(a, c, f)
            \/ \E t \in DROPPED, q \in 0 .. MaxDrop : AgentDrop(a, t, q, c) )
          => /\ ag_ret'[a].raised = None
             /\ ag_ret'[a].value[1] = FALSE => AgentUntouched(a)
      ]_vars

\* The reasons of a failure at the commit.
COMMIT_FAILS ==
    {COMMIT_FAIL(e) : e \in {NO_ITEM, BLOCKED_CELL, OCCUPIED_CELL,
                             OBJ_NOT_FOUND, QTY_GT1_SINGLE_CELL}}

\* Agent a's last action returned success.
Won(a) == ag_ret[a].raised = None /\ ag_ret[a].value[1] = TRUE

\* Agent a's last action returned a failure marked COMMIT_FAIL and its
\* inventory is the one the action started from.
LostAtCommit(a) ==
    /\ ag_ret[a].raised = None
    /\ ag_ret[a].value[1] = FALSE
    /\ ag_ret[a].value[2] \in COMMIT_FAILS
    /\ ag_items[a] = ag_ret[a].items0

\* C11: when two agents' pick_from_ground actions on the same object, or
\* drop_to_ground actions on the same free cell, are interleaved step by
\* step (validation, own-inventory change, commit) so that both pass the
\* validation, exactly one of them succeeds; the other returns a failure
\* marked COMMIT_FAIL and its inventory is exactly as before its action.
C11_OneRacerWins ==
    \A a \in NPCS : \A b \in NPCS \ {a} :
        ( /\ ag_pc[a] = AtRest /\ ag_pc[b] = AtRest
          /\ ag_ret[a].raced /\ ag_ret[b].raced
          /\ ag_ret[a].op = ag_ret[b].op
          /\ ag_ret[a].cell = ag_ret[b].cell )
        => \/ Won(a) /\ LostAtCommit(b)
           \/ Won(b) /\ LostAtCommit(a)

\* ------------------------------------- claims: NPCAgent movement and areas
\* The class name of the area area_at gives for cell (None for no area).
AreaNameAt(cell) == set_current_area_name(manager, cell)

\* The cell NPCAgent.current_cell gives.
NpcCell == to_cell(_pos_world, grid_size)

\* C13: within one NPCAgent.update(dt) the movement and the area refresh
\* come before Crafter.update: when this tick's movement takes the agent from
\* a cell inside the area its Active task requires to a cell outside it, the
\* task is cancelled in this same tick and the tick's dt produces no output.
C13_LeavingCancelsSameTick ==
    [][ ( /\ ret'.op = "npc_update"
          /\ NpcUpdate(ret'.dt)
          /\ _task # NoTask
          /\ TaskStation(_task) # None
          /\ NpcCell' # NpcCell
          /\ AreaNameAt(NpcCell) = TaskStation(_task)
          /\ AreaNameAt(NpcCell') # TaskStation(_task) )
        => /\ _task' = NoTask
           /\ items' = items
      ]_vars

\* An update moved the agent from the station's area to a cell outside it
\* with a dt that would have completed the unit in progress; the task is gone.
C13_Witness ==
    /\ ret.op = "npc_update"
    /\ ret.task0 # NoTask
    /\ TaskStation(ret.task0) # None
    /\ ret.dt >= ret.task0[1].time_left_unit
    /\ ret.cell0 # NpcCell
    /\ AreaNameAt(ret.cell0) = TaskStation(ret.task0)
    /\ AreaNameAt(NpcCell) # TaskStation(ret.task0)
    /\ _task = NoTask

\* C14: a station-gated recipe passes the station check of Crafter.start
\* exactly when the area area_at returns for the agent's current cell is of
\* the kind recipe.station names (any id); in no area or in an area of
\* another kind start answers WRONG_STATION.  Stated for an Idle crafter and
\* one unit of the known recipe bread, so that the station check is reached.
C14_StationIsAreaAtCell ==
    [][ (NpcStart /\ _task = NoTask)
        => ( (ret'.err = "WRONG_STATION")
             <=> (AreaNameAt(NpcCell) # RECIPES["bread"].station) )
      ]_vars

\* The failure codes of Crafter.start, in the order of its checks.
START_ERRORS ==
    << "ALREADY_BUSY", "INVALID_QTY", "UNKNOWN_RECIPE", "NOT_KNOWN",
       "WRONG_STATION", "MISSING_INPUTS" >>

\* Whether check i of Crafter.start fails for a call.
CheckFails(i, task, inv, area, recipe_name, qty) ==
    CASE i = 1 -> task # NoTask
      [] i = 2 -> qty <= 0
      [] i = 3 -> recipe_name \notin DOMAIN RECIPES
      [] i = 4 -> recipe_name \notin known_recipes
      [] i = 5 -> /\ recipe_name \in DOMAIN RECIPES
                  /\ RECIPES[recipe_name].station # None
                  /\ area # RECIPES[recipe_name].station
      [] i = 6 -> /\ recipe_name \in DOMAIN RECIPES
                  /\ \E k \in DOMAIN RECIPES[recipe_name].inputs :
                        Inventory_count(inv, k)
                          < RECIPES[recipe_name].inputs[k] * qty

\* C22: Crafter.start reports the first failing check in the order
\* ALREADY_BUSY, INVALID_QTY, UNKNOWN_RECIPE, NOT_KNOWN, WRONG_STATION,
\* MISSING_INPUTS; a failed start leaves the inventory and the task as they
\* were; the start succeeds exactly when none of the six checks fails.
C22_FirstFailingCheckReported ==
    [][ ret'.op = "start"
        => \/ /\ ret'.ok
              /\ ret'.err = None
              /\ _task' # NoTask
              /\ \A i \in 1 .. 6 :
                    ~CheckFails(i, _task, items, _current_area_name,
                                ret'.recipe, ret'.qty)
           \/ /\ ~ret'.ok
              /\ items' = items
              /\ _task' = _task
              /\ \E i \in 1 .. 6 :
                    /\ ret'.err = START_ERRORS[i]
                    /\ CheckFails(i, _task, items, _current_area_name,
                                  ret'.recipe, ret'.qty)
                    /\ \A j \in 1 .. i - 1 :
                          ~CheckFails(j, _task, items, _current_area_name,
                                      ret'.recipe, ret'.qty) ]_vars

\* An Idle crafter outside the bakery and without wheat asked for bread:
\* WRONG_STATION and MISSING_INPUTS both fail, the earlier one is reported.
C22_Witness ==
    /\ ret.op = "start"
    /\ ret.recipe = "bread"
    /\ ret.qty > 0
    /\ ret.task0 = NoTask
    /\ ret.err = "WRONG_STATION"
    /\ _current_area_name # "BakeryArea"
    /\ Inventory_count(items, "wheat") < 2 * ret.qty

\* ------------------------------------------------------ claims: GridMover
\* Whether v lies between a and b, ends included.
Between(v, a, b) == Min(a, b) <= v /\ v <= Max(a, b)

\* Whether world point p lies on the axis-aligned segment from a to b.
OnSegment(p, a, b) ==
    \/ p[1] = a[1] /\ a[1] = b[1] /\ Between(p[2], a[2], b[2])
    \/ p[2] = a[2] /\ a[2] = b[2] /\ Between(p[1], a[1], b[1])

\* The mover is on the centre of path[index] when idle and otherwise on the
\* segment from the centre of path[index] to the centre of path[index + 1].
OnCurrentSegment(m) ==
    LET here == to_world(m.path[m._current_index + 1], grid_size)
    IN  IF is_idle(m) THEN m._pos_world = here
        ELSE OnSegment(m._pos_world, here,
                       to_world(m.path[m._current_index + 2], grid_size))

\* C21: after set_path with a 4-connected path, after every update(dt) with
\* dt >= 0 the world position lies on the axis-aligned segment between the
\* centres of path[index] and path[index + 1] (on the centre of path[index]
\* when idle), and one update changes at most one of the two coordinates.
C21_StaysOnSegment ==
    [][ (mv_ret'.op = "update" /\ path # <<>>)
        => /\ OnCurrentSegment(mover')
           /\ \/ _pos_world'[1] = _pos_world[1]
              \/ _pos_world'[2] = _pos_world[2] ]_vars

\* Half way along the second segment of a path that turns, after an update
\* with dt = 0.
C21_Witness ==
    /\ mv_ret.op = "update"
    /\ mv_ret.dt = 0
    /\ Len(path) >= 3
    /\ _current_index = 1
    /\ path[1][1] # path[3][1]
    /\ path[1][2] # path[3][2]
    /\ _pos_world # to_world(path[2], grid_size)
    /\ _pos_world # to_world(path[3], grid_size)

\* The distance from the mover to the centre of its next waypoint.
Remaining(m) ==
    LET t == to_world(m.path[m._current_index + 2], grid_size)
    IN  Abs(t[1] - m._pos_world[1]) + Abs(t[2] - m._pos_world[2])

\* The distance update(dt) can cover.
Coverable(dt) == (speed_cells_per_sec * grid_size * dt) \div TICKS_PER_SEC

\* C27: one update(dt) advances the path index by at most one, however
\* large dt is: when the distance coverable in dt is at least the distance
\* left to the next waypoint, the position becomes exactly that waypoint's
\* centre, and the surplus is not spent on the following segment.
C27_OneWaypointPerUpdate ==
    [][ mv_ret'.op = "update"
        => /\ _current_index' <= _current_index + 1
           /\ _current_index' >= _current_index
           /\ (~is_idle(mover) /\ Coverable(mv_ret'.dt) >= Remaining(mover))
              => /\ _current_index' = _current_index + 1
                 /\ _pos_world' = to_world(path[_current_index + 2],
                                           grid_size) ]_vars

\* An update whose dt covers more than the rest of the segment, with two
\* waypoints still ahead, stopped on the next waypoint.
C27_Witness ==
    /\ mv_ret.op = "update"
    /\ Len(path) >= 3
    /\ _current_index = 1
    /\ mv_elapsed = mv_ret.dt
    /\ mv_ret.dt > CellTime
    /\ _pos_world = to_world(path[2], grid_size)

\* ------------------------------------------------ claims: the area index
\* The ids areas_for_cell lists for a cell, as a set.
ListedFor(am, cell) ==
    {areas_for_cell(am, cell)[i] : i \in DOMAIN areas_for_cell(am, cell)}

\* C24: index building, containment and perimeter computation agree on what
\* a rectangle covers: for every area and every cell the index lists the
\* area exactly when RectArea.contains reports the cell inside it, and every
\* perimeter cell and perimeter-blocked cell of an area is a cell the index
\* attributes to that area.
C24_OneRectangleConvention ==
    \A i \in DOMAIN _areas :
        LET area == _areas[i]
        IN  /\ \A c \in AREA_CELLS :
                  (area.id \in ListedFor(manager, c)) <=> contains(area, c)
            /\ \A c \in perimeter_cells(area) :
                  area.id \in ListedFor(manager, c)
            /\ \A c \in perimeter_block_cells(area) :
                  area.id \in ListedFor(manager, c)

\* C25: after any sequence of add, remove and rebuild_index calls the
\* cell-to-area-id index equals the index built from scratch from the
\* current areas in insertion order: no id of a removed area is left in any
\* cell's list and every current area is listed for each cell its rects
\* index.
C25_IndexIsFresh ==
    /\ _cell_to_areas = _build_index(_areas)
    /\ \A c \in DOMAIN _cell_to_areas :
          ListedFor(manager, c) \subseteq area_ids(_areas)
    /\ \A i \in DOMAIN _areas :
          \A k \in DOMAIN _areas[i].rects :
             \A c \in rect_index_cells(_areas[i].rects[k]) :
                _areas[i].id \in ListedFor(manager, c)

\* Area A was removed while B, which shared cell <<1, 1>> with it, stays.
C25_Witness ==
    /\ am_ret.op = "remove"
    /\ am_ret.id = "A"
    /\ area_ids(_areas) = {"B"}
    /\ areas_for_cell(manager, <<1, 1>>) = <<"B">>
    /\ <<0, 0>> \notin DOMAIN _cell_to_areas

\* The union over the areas of each area's boundary cells minus that
\* area's own entrance cells.
BlockedPerimeter(areas) ==
    UNION {perimeter_cells(areas[i]) \ areas[i].entrances :
             i \in DOMAIN areas}

\* C26: after any sequence of add, remove, rebuild_index and
\* perimeter_blocked_cells calls, perimeter_blocked_cells returns exactly
\* the union over the current areas of the area's boundary cells minus the
\* area's own entrances: the cache is never stale, and a change the caller
\* makes to a returned set changes no later result.
C26_PerimeterNeverStale ==
    [][ /\ am_ret'.op = "perimeter_blocked_cells"
           => am_ret'.value = BlockedPerimeter(_areas)
        /\ _perimeter_cache' # <<>>
           => _perimeter_cache'[1] = BlockedPerimeter(_areas') ]_vars

\* The caller discarded a cell from the set it was handed and added
\* another; the cache still holds the blocked perimeter of the one area,
\* entrance left out.
C26_Witness ==
    /\ am_ret.op = "caller_change"
    /\ Len(_areas) = 1
    /\ _areas[1].entrances # {}
    /\ <<0, 0>> \notin am_ret.value
    /\ <<3, 0>> \in am_ret.value
    /\ _perimeter_cache = <<BlockedPerimeter(_areas)>>
    /\ <<0, 0>> \in _perimeter_cache[1]
    /\ <<3, 0>> \notin _perimeter_cache[1]

\* ------------------------------------------------- claims: returned paths
\* C28: every non-empty path returned by astar begins with start, ends with
\* goal, has every consecutive pair of cells exactly one orthogonal step
\* apart, repeats no cell, and contains only in-bounds cells that are not
\* in the grid's blocked set.
C28_PathIsWalkOfFreeCells ==
    (pf_done /\ pf_path # <<>>)
    => /\ pf_path[1] = pf_start
       /\ pf_path[Len(pf_path)] = pf_goal
       /\ FourConnected(pf_path)
       /\ \A i \in DOMAIN pf_path : \A j \in DOMAIN pf_path :
             i # j => pf_path[i] # pf_path[j]
       /\ \A i \in DOMAIN pf_path : FreeCell(pf_path[i], pf_grid)

\* ------------------------------------------ claims: ledger validation
\* The registry, the occupancy map and the blocked set are as before.
LedgerUnchanged ==
    /\ _objects' = _objects
    /\ obj_by_cell' = obj_by_cell
    /\ world_blocked' = world_blocked

\* C29: commit_drop (of one item) creates a ground object only if, at
\* commit time, the cell is neither in the blocked set nor occupied; on a
\* blocked cell it returns BLOCKED_CELL, on an unblocked occupied cell
\* OCCUPIED_CELL, and leaves the ledger unchanged; commit_pick of an id not
\* in the ledger returns OBJ_NOT_FOUND and leaves the ledger unchanged.
C29_CommitsRevalidate ==
    [][ /\ (om_ret'.op = "commit_drop" /\ om_ret'.qty = 1)
           => LET cell == om_ret'.cell
              IN  /\ cell \in world_blocked
                     => /\ om_ret'.raised = None
                        /\ om_ret'.value = <<FALSE, BLOCKED_CELL, <<>> >>
                        /\ LedgerUnchanged
                  /\ (cell \notin world_blocked
                      /\ cell \in DOMAIN obj_by_cell)
                     => /\ om_ret'.raised = None
                        /\ om_ret'.value = <<FALSE, OCCUPIED_CELL, <<>> >>
                        /\ LedgerUnchanged
                  /\ DOMAIN _objects' # DOMAIN _objects
                     => /\ cell \notin world_blocked
                        /\ cell \notin DOMAIN obj_by_cell
        /\ (om_ret'.op = "commit_pick"
            /\ om_ret'.obj_id \notin DOMAIN _objects)
           => /\ om_ret'.raised = None
              /\ om_ret'.value = <<FALSE, OBJ_NOT_FOUND, NoObjId>>
              /\ LedgerUnchanged ]_vars

\* C30: can_pick and can_drop are read-only: for every cell and type filter
\* they leave the object registry, the occupancy map and the blocked set
\* unchanged; can_pick returns NO_ITEM for a cell without ground object,
\* NO_MATCHING_TYPE for an object whose type differs from the filter, and
\* otherwise the id of the object on the cell.
C30_ValidationReadOnly ==
    [][ /\ om_ret'.op \in {"can_pick", "can_drop"} => LedgerUnchanged
        /\ om_ret'.op = "can_pick"
           => LET cell == om_ret'.cell
                  f == om_ret'.type_filter
              IN  /\ om_ret'.raised = None
                  /\ om_ret'.value =
                       IF cell \notin DOMAIN obj_by_cell
                       THEN <<FALSE, NO_ITEM, NoObjId>>
                       ELSE IF f # None
                               /\ _objects[obj_by_cell[cell]].name # f
                       THEN <<FALSE, NO_MATCHING_TYPE, NoObjId>>
                       ELSE <<TRUE, None, obj_by_cell[cell]>> ]_vars

\* ------------------------------------------------ claims: a crafting run
\* Whether the outputs of qty units of the recipe fit the counts the model
\* tells apart, once the inputs are taken.
Fits(recipe_name, qty) ==
    /\ recipe_name \in DOMAIN RECIPES
    /\ \A x \in ITEMS :
          Inventory_count(items, x)
            - Asked(RECIPES[recipe_name].inputs, x) * qty
            + OutputOf(RECIPES[recipe_name], x) * qty <= MaxCount

\* Between tasks the agent gathers, changes area and starts a task.
RunGather(delta) == _task = NoTask /\ InvAdd(delta)

RunEnter(a) == _task = NoTask /\ SetArea(a)

RunStart(recipe_name, qty) ==
    /\ _task = NoTask
    /\ Fits(recipe_name, qty)
    /\ Start(recipe_name, qty)

\* The game loop's crafter.update(dt), dt > 0.
RunTick == \E dt \in 1 .. MaxDt : Update(dt)

CraftRunNext ==
    \/ \E d \in GATHERED : RunGather(d)
    \/ \E a \in {"BakeryArea", None} : RunEnter(a)
    \/ \E n \in DOMAIN RECIPES, q \in 1 .. MaxQty : RunStart(n, q)
    \/ RunTick

\* Crafting runs: while a task is Active only the game loop acts, the area
\* stays what it was at the start, and the loop keeps calling update.
SpecCraftRun == InitCraft /\ [][CraftRunNext]_vars /\ WF_vars(RunTick)

\* The units of the Active task still to produce.
Pending == IF _task = NoTask THEN 0 ELSE _task[1].qty_remaining

\* The count of x once the units still to produce are added.
CountWhenDone(x) ==
    IF _task = NoTask THEN Inventory_count(items, x)
    ELSE Inventory_count(items, x)
           + Pending * OutputOf(RECIPES[_task[1].recipe], x)

\* C23: an Active task with unit time T > 0 whose station requirement stays
\* satisfied reaches Idle after finitely many update(dt) calls with dt > 0,
\* and then the recipe outputs have been added exactly qty_total times:
\* every update adds the outputs once for each unit it takes off
\* qty_remaining, which starts at qty_total, so that the counts at Idle are
\* the counts at the start plus qty_total times the outputs, however the
\* time is split into ticks.
C23_ActiveTaskCompletes ==
    /\ [][ (ret'.op = "update" /\ _task # NoTask)
           => /\ \A x \in ITEMS : CountWhenDone(x)' = CountWhenDone(x)
              /\ _task' # NoTask
                 => /\ _task'[1].recipe = _task[1].recipe
                    /\ _task'[1].qty_total = _task[1].qty_total
                    /\ _task'[1].qty_remaining >= 1
                    /\ _task'[1].qty_remaining <= _task[1].qty_remaining
         ]_vars
    /\ \A x \in ITEMS : \A v \in 0 .. MaxCount :
          (_task # NoTask /\ CountWhenDone(x) = v)
             ~> (_task = NoTask /\ Inventory_count(items, x) = v)

\* Three units of bread (T = 2) done by ticks of 1, 2 and 3: Idle again,
\* three bread made.
C23_Witness ==
    /\ ret.op = "update"
    /\ ret.dt = 3
    /\ ret.task0 = << [recipe |-> "bread", qty_total |-> 3,
                       qty_remaining |-> 2, time_left_unit |-> 1] >>
    /\ _task = NoTask
    /\ Inventory_count(items, "bread") = 3
    /\ Inventory_count(items, "wheat") = 0

\* ------------------------------------------- claims: GridMover's state
\* The shape of a mover: the index is within the path, is_idle and
\* target_cell say what the index says.
MoverShape(m) ==
    /\ 0 <= m._current_index
    /\ m._current_index <= Max(0, Len(m.path) - 1)
    /\ is_idle(m) <=> (m.path = <<>> \/ m._current_index = Len(m.path) - 1)
    /\ target_cell(m) = <<>> <=> is_idle(m)
    /\ ~is_idle(m) => target_cell(m) = <<m.path[m._current_index + 2]>>

\* C31: in every reachable GridMover state 0 <= index <= max(0,
\* len(path) - 1); is_idle holds exactly when the path is empty or the index
\* is the last index; target_cell is none exactly when idle and otherwise
\* path[index + 1]; and update on an idle mover changes nothing.
C31_IndexWithinPath ==
    /\ MoverShape(mover)
    /\ [][ /\ MoverShape(mover')
           /\ (mv_ret'.op = "update" /\ is_idle(mover))
              => mover' = mover ]_vars

\* A mover idle on the only cell of its path was updated with dt > 0.
C31_Witness ==
    /\ mv_ret.op = "update"
    /\ mv_ret.dt > 0
    /\ Len(path) = 1
    /\ _current_index = 0
    /\ is_idle(mover)
    /\ _pos_world = to_world(path[1], grid_size)

\* C32: set_path with a non-empty path replaces the previous path, resets
\* the index to 0 and moves the position to the centre of path[0], also in
\* the middle of a move; set_path with an empty path makes the mover idle
\* and leaves the position unchanged; set_cell_position clears the path
\* and puts the position at the centre of the given cell.
C32_SetPathResets ==
    [][ /\ (mv_ret'.op = "set_path" /\ mv_ret'.arg # <<>>)
           => /\ path' = mv_ret'.arg
              /\ _current_index' = 0
              /\ _pos_world' = to_world(mv_ret'.arg[1], grid_size)
        /\ (mv_ret'.op = "set_path" /\ mv_ret'.arg = <<>>)
           => /\ is_idle(mover')
              /\ path' = <<>>
              /\ _pos_world' = _pos_world
        /\ mv_ret'.op = "set_cell_position"
           => /\ path' = <<>>
              /\ _pos_world' = to_world(mv_ret'.arg, grid_size)
      ]_vars

\* A new path was set while the mover was following another one: the mover
\* stands on the first cell of the new one.
C32_Witness ==
    /\ mv_ret.op = "set_path"
    /\ ~mv_ret.idle0
    /\ Len(path) >= 2
    /\ path[2] = <<0, 1>>
    /\ _current_index = 0
    /\ _pos_world = to_world(<<0, 0>>, grid_size)

\* ------------------------------------------- claims: the CraftTask's state
\* An Active task has units left and time left on the current unit.
TaskInRange(task) ==
    task # NoTask
    => /\ 1 <= task[1].qty_remaining
       /\ task[1].qty_remaining <= task[1].qty_total
       /\ 0 < task[1].time_left_unit
       /\ task[1].time_left_unit <= RECIPES[task[1].recipe].time_per_unit

\* C36: while a CraftTask is Active, observed between calls,
\* 1 <= qty_remaining <= qty_total and 0 < time_left_unit <= T (T > 0 the
\* recipe's time per unit); a task with qty_remaining = 0 is never
\* observable; update on an Idle crafter changes neither the state nor the
\* inventory.
C36_TaskInRange ==
    /\ TaskInRange(_task)
    /\ [][ /\ TaskInRange(_task')
           /\ (ret'.op = "update" /\ _task = NoTask)
              => (_task' = NoTask /\ items' = items) ]_vars

\* The last unit of three is under way, half of its time gone.
C36_Witness ==
    /\ _task # NoTask
    /\ _task[1].qty_total = 3
    /\ _task[1].qty_remaining = 1
    /\ _task[1].time_left_unit = 1
    /\ RECIPES[_task[1].recipe].time_per_unit = 2
    /\ ret.op = "update"

\* C39: for every cell the list returned by areas_for_cell contains each
\* area id at most once, also for an area made of several rectangles that
\* overlap each other, after any sequence of add, remove and rebuild_index.
C39_IdListedOnce ==
    \A c \in AREA_CELLS :
        LET ids == areas_for_cell(manager, c)
        IN  \A i \in DOMAIN ids : \A j \in DOMAIN ids :
               i # j => ids[i] # ids[j]

\* ---------------------------------------- claims: registry and occupancy
\* C34: after any sequence of add, spawn, commit_pick and commit_drop,
\* calls that raise included, the occupancy map and the registry agree:
\* obj_by_cell maps cell c to id exactly when the object with that id is
\* registered, is not held and has cell c; an add or spawn that raises
\* because the cell is occupied registers nothing.
C34_OccupancyMatchesRegistry ==
    /\ \A c \in DOMAIN obj_by_cell :
          /\ obj_by_cell[c] \in DOMAIN _objects
          /\ _objects[obj_by_cell[c]].held_by = None
          /\ _objects[obj_by_cell[c]].cell = c
    /\ \A id \in DOMAIN _objects :
          _objects[id].held_by = None
          => /\ _objects[id].cell \in DOMAIN obj_by_cell
             /\ obj_by_cell[_objects[id].cell] = id

\* ------------------------------------------ claims: items in pick and drop
\* The ground objects of type t: the cells of the occupancy map whose
\* object has that type.
GroundCells(objs, by_cell, t) ==
    {c \in DOMAIN by_cell :
        by_cell[c] \in DOMAIN objs /\ objs[by_cell[c]].name = t}

\* What agent a holds of type t plus what lies on the ground.
HeldAndGround(held, objs, by_cell, t) ==
    Inventory_count(held, t) + Cardinality(GroundCells(objs, by_cell, t))

\* C35: items are conserved by pick and drop: a pick_from_ground or
\* drop_to_ground call leaves, for every type, the agent's count plus the
\* number of ground objects as it was; a successful pick removes exactly
\* the ground object of the cell and raises the agent's count of its type
\* by 1; a successful drop lowers the agent's count of the item by 1 and
\* creates one ground object of that type on the target cell; nothing else
\* changes.
C35_ItemsConserved ==
    [][ \A a \in NPCS :
          LET r == ag_ret'[a]
              done == r.raised = None /\ r.value[1] = TRUE
          IN  ( \/ r.op = "pick" /\ AgentPick(a, r.cell, r.type_filter)
                \/ r.op = "drop" /\ AgentDrop(a, r.item_type, r.qty, r.cell) )
              => /\ \A t \in ITEM_TYPES :
                       HeldAndGround(ag_items'[a], _objects', obj_by_cell', t)
                         = HeldAndGround(ag_items[a], _objects, obj_by_cell, t)
                 /\ (r.op = "pick" /\ done)
                    => /\ r.cell \in DOMAIN obj_by_cell
                       /\ DOMAIN obj_by_cell' = DOMAIN obj_by_cell \ {r.cell}
                       /\ \A c \in DOMAIN obj_by_cell' :
                             obj_by_cell'[c] = obj_by_cell[c]
                       /\ \A t \in ITEM_TYPES :
                             Inventory_count(ag_items'[a], t)
                               = Inventory_count(ag_items[a], t)
                                 + IF _objects[obj_by_cell[r.cell]].name = t
                                   THEN 1 ELSE 0
                 /\ (r.op = "drop" /\ done)
                    => /\ r.cell \notin DOMAIN obj_by_cell
                       /\ DOMAIN obj_by_cell' = DOMAIN obj_by_cell \cup {r.cell}
                       /\ _objects'[obj_by_cell'[r.cell]].name = r.item_type
                       /\ \A c \in DOMAIN obj_by_cell :
                             obj_by_cell'[c] = obj_by_cell[c]
                       /\ \A t \in ITEM_TYPES :
                             Inventory_count(ag_items'[a], t)
                               = Inventory_count(ag_items[a], t)
                                 - IF r.item_type = t THEN 1 ELSE 0
      ]_vars

\* --------------------------------------- claims: the area the crafter reads
\* C33: whenever Crafter.start or Crafter.update reads the agent's current
\* area (start when it reaches the station check of a station-gated recipe,
\* update when the Active task's recipe names a station), the value read is
\* the name of the area area_at returns for the agent's cell at that
\* moment, in every reachable agent state.
C33_AreaReadIsAreaAtCell ==
    [][ /\ (NpcStart /\ _task = NoTask)
           => _current_area_name = AreaNameAt(NpcCell)
        /\ ( /\ ret'.op = "npc_update"
             /\ NpcUpdate(ret'.dt)
             /\ _task # NoTask
             /\ TaskStation(_task) # None )
           => _current_area_name' = AreaNameAt(NpcCell)'
      ]_vars

\* ------------------------------------------------ calls (move_to_cell)
\* What the grid_spec_provider returns when the agent asks for a route: an
\* open grid, a grid whose corner <<0, 0>> is walled in, and a grid with
\* its centre blocked.
MOVE_GRIDS ==
    {g \in GRIDS : g.blocked \in {{}, {<<0, 1>>, <<1, 0>>}, {<<1, 1>>}}}

\* The goals of move_to_cell: cells of the grid and one outside it.
MOVE_GOALS == {<<0, 0>>, <<1, 1>>, <<2, 1>>, <<GridW, 1>>}

\* The cells the agent is spawned on.
SPAWN_CELLS == {<<0, 0>>, <<2, 1>>}

\* An agent that is spawned, sent to goals at any time and updated.
NpcMoveNext ==
    \/ \E c \in SPAWN_CELLS : SetCellPosition(c)
    \/ \E c \in MOVE_GOALS : \E g \in MOVE_GRIDS : MoveToCell(c, g)
    \/ \E dt \in 1 .. MaxTick : NpcUpdate(dt)

SpecNpcMove == InitCraft /\ [][NpcMoveNext]_vars

\* C37: move_to_cell(goal) returns False exactly when astar from the agent's
\* current cell to goal yields the empty path; then the path the agent was
\* following is discarded, the agent is idle and its position is unchanged;
\* when it returns True the mover's path starts at the agent's current cell
\* and ends at goal.
C37_MoveToCellFollowsAstar ==
    [][ (mv_ret'.op = "move_to_cell") =>
          LET start == to_cell(_pos_world, grid_size)
              route == astar(start, mv_ret'.arg, mv_ret'.grid)
          IN  /\ (mv_ret'.value = FALSE) <=> (route = <<>>)
              /\ (mv_ret'.value = FALSE) =>
                    /\ path' = <<>>
                    /\ is_idle(mover')
                    /\ target_cell(mover') = <<>>
                    /\ _pos_world' = _pos_world
              /\ (mv_ret'.value = TRUE) =>
                    /\ path' # <<>>
                    /\ path'[1] = start
                    /\ path'[Len(path')] = mv_ret'.arg
      ]_vars

\* move_to_cell returned False while the agent was following a path, and
\* the agent now stands idle between two cell centres.
C37_Witness ==
    /\ mv_ret.op = "move_to_cell"
    /\ mv_ret.value = FALSE
    /\ ~mv_ret.idle0
    /\ path = <<>>
    /\ _pos_world # to_world(to_cell(_pos_world, grid_size), grid_size)

\* -------------------------------------------------- load_world_from_json
\* AreaManager(areas): the dict is copied and the index built from it.
AreaManager_from(areas) ==
    [_areas |-> areas, _cell_to_areas |-> _build_index(areas),
     _perimeter_cache |-> <<>>]

\* load_areas(area_specs): [am, raised]; an id that appears twice raises.
load_areas(area_specs) ==
    IF \E i, j \in DOMAIN area_specs : i < j /\ area_specs[i].id = area_specs[j].id
    THEN [am |-> AreaManager_new, raised |-> "ValueError"]
    ELSE [am |-> AreaManager_from(area_specs), raised |-> None]

RECURSIVE load_items(_, _, _)
\* The loop over data["items"]: object_mgr.add(make_item(type, cell)) from
\* the i-th item on; an add that raises ends the load.
load_items(om, items_cfg, i) ==
    IF i > Len(items_cfg) THEN Returned(om, <<>>)
    ELSE LET r == ObjectManager_add(om, items_cfg[i].type, items_cfg[i].cell)
         IN  IF r.raised # None THEN r
             ELSE load_items(r.om, items_cfg, i + 1)

\* load_world_from_json for a file whose content is data = [blocked, items,
\* areas] and that names no npc: [raised, blocked_cells, object_mgr,
\* area_mgr].  The ObjectManager is a new one (the module's _id_counter
\* goes on counting); nothing is handed to its world_blocked.
load_world_from_json(data, id_counter) ==
    LET objs == load_items([ObjectManager_new EXCEPT
                              !._id_counter = id_counter], data.items, 1)
        ar == load_areas(data.areas)
        per == perimeter_blocked_cells(ar.am)
    IN  IF objs.raised # None
        THEN [raised |-> objs.raised, blocked_cells |-> {},
              object_mgr |-> objs.om, area_mgr |-> AreaManager_new]
        ELSE IF ar.raised # None
        THEN [raised |-> ar.raised, blocked_cells |-> {},
              object_mgr |-> objs.om, area_mgr |-> AreaManager_new]
        ELSE [raised |-> None,
              blocked_cells |-> data.blocked \cup per.value,
              object_mgr |-> objs.om, area_mgr |-> per.am]

\* ----------------------------------------- calls (load_world_from_json)
\* The area descriptors of the files: areas with entrances and an anchor.
LOAD_AREAS == {a \in AREAS : a.entrances # {}}

\* The files: up to two explicit blocked cells; no item, one wheat, or two
\* items on one cell; no area, one area, or one area listed twice.
WORLD_FILES ==
    [blocked : SUBSET {<<1, 0>>, <<2, 0>>},
     items : {<<>>, <<[type |-> "wheat", cell |-> <<1, 0>>]>>,
              <<[type |-> "wheat", cell |-> <<0, 0>>],
                [type |-> "bread", cell |-> <<0, 0>>]>>},
     areas : {<<>>} \cup {<<a>> : a \in LOAD_AREAS}
                    \cup {<<a, a>> : a \in {b \in LOAD_AREAS : b.id = "A"}}]

\* The cells a drop is asked for.
DROP_CELLS == {<<0, 0>>, <<1, 0>>, <<2, 0>>, <<0, 1>>}

\* The scene loads a file: bc, om, npcs, am = load_world_from_json(...) and
\* keeps bc as the blocked cells of the GridSpec its provider returns; a
\* load that raises leaves the scene as it was.
LoadWorld(data) ==
    LET r == load_world_from_json(data, _id_counter)
    IN  /\ _id_counter <= MaxIds
        /\ IF r.raised # None
           THEN /\ _id_counter' = r.object_mgr._id_counter
                /\ UNCHANGED <<_objects, obj_by_cell, world_blocked>>
                /\ UNCHANGED <<_areas, _cell_to_areas, _perimeter_cache,
                               am_order, pf_grid>>
           ELSE /\ SetLedger(r.object_mgr)
                /\ _areas' = r.area_mgr._areas
                /\ _cell_to_areas' = r.area_mgr._cell_to_areas
                /\ _perimeter_cache' = r.area_mgr._perimeter_cache
                /\ am_order' = [i \in DOMAIN data.areas |-> data.areas[i].id]
                /\ pf_grid' = [pf_grid EXCEPT !.blocked = r.blocked_cells]
        /\ om_ret' = [NoLedgerCall EXCEPT !.op = "load",
                        !.raised = r.raised]
        /\ am_ret' = [op |-> "load", id |-> None, raised |-> r.raised]
        /\ UNCHANGED <<pf_start, pf_goal, pf_path, pf_done>>
        /\ UNCHANGED <<craftVars, moverVars, agentsVars>>

\* A scene that loads world files and validates drops against the ledger.
LoaderNext ==
    \/ \E data \in WORLD_FILES : LoadWorld(data)
    \/ \E c \in DROP_CELLS : CanDrop(c)

SpecLoader == InitCraft /\ [][LoaderNext]_vars

\* C38: after load_world_from_json the ledger and the pathfinder agree on
\* what is blocked: every cell of the returned blocked-cell set (explicit
\* blocked cells and area perimeter cells minus entrances), which the grid
\* of the pathfinder carries, is rejected by can_drop with BLOCKED_CELL.
C38_LedgerRejectsBlocked ==
    \A c \in pf_grid.blocked : can_drop(ledger, c) = <<FALSE, BLOCKED_CELL>>

=============================================================================
